---- MODULE Spec2Model ----
(***************************************************************************)
(* TinyTail: the log store (lambda/internal/store/logs.go) and the alert   *)
(* engine (internal/alerts, src/unnamed/part_001 lines 1-290).             *)
(*                                                                         *)
(* Strings are sequences of byte values (ASCII codes), compared byte-wise  *)
(* as Go and the backing store compare them.  Instants are integers in     *)
(* milliseconds since an arbitrary origin; the timestamp of a log entry    *)
(* also carries its part below the millisecond (Nanos, in ns).             *)
(***************************************************************************)
EXTENDS Integers, Sequences, FiniteSets, TLC

VARIABLES
    now,        \* the wall clock, in ms (time.Now())
    items,      \* the log table: items in ascending timestamp_seq order
    resp,       \* the request and the response of the last GetLogs call
    chain,      \* a reader chaining GetLogs(afterCursor) pages
    rules,      \* the rule list the alert handler was constructed with
    dedup,      \* the alerts table: ruleID -> dedup record, or NoItem
    inv,        \* the ProcessAlerts invocations: position in the rule loop
    evals,      \* history: per rule, its last finished evaluation, or NoEval
    sends,      \* history: per rule, its last delivered notification and the
                \* instant of the one before, or NoSend
    sessions,   \* the sessions table: the stored session records
    web,        \* the HTTP handler: the last request and its response, and
                \* the history of logins and logouts
    appender    \* the logback appender's sendLogWithRetry for one log event

vars == <<now, items, resp, chain, rules, dedup, inv, evals, sends, sessions, web, appender>>

-----------------------------------------------------------------------------
(* Bounds of the model *)

MaxItems == 3       \* items in the log table
MaxTs == 2          \* entry timestamps of the store runs are 0..MaxTs ms
MaxEntropy == 1     \* ULID entropy values are 0..MaxEntropy
MaxSlot == 3        \* the clock of the alert runs covers slots 0..MaxSlot

\* the size above which StoreLogEntry splits a message: 350 * 1024 bytes in
\* logs.go, scaled down here so that oversized messages fit the model
MaxMessageSize == 4

-----------------------------------------------------------------------------
(* Strings *)

Min(a, b) == IF a <= b THEN a ELSE b
Max(a, b) == IF a >= b THEN a ELSE b

RECURSIVE StrLessFrom(_, _, _)
StrLessFrom(s, t, i) ==
    IF i > Len(t) THEN FALSE
    ELSE IF i > Len(s) THEN TRUE
    ELSE IF s[i] = t[i] THEN StrLessFrom(s, t, i + 1)
    ELSE s[i] < t[i]

\* byte-wise s < t (Go string comparison, sort-key comparison of the table)
StrLess(s, t) == StrLessFrom(s, t, 1)

StrLeq(s, t) == s = t \/ StrLess(s, t)

Reverse(s) == [i \in 1..Len(s) |-> s[Len(s) + 1 - i]]

Take(s, n) == IF Len(s) > n THEN SubSeq(s, 1, n) ELSE s

\* strings.ToLower on ASCII
ToLower(s) == [i \in 1..Len(s) |-> IF s[i] >= 65 /\ s[i] <= 90 THEN s[i] + 32 ELSE s[i]]

\* strings.Contains
Contains(s, sub) ==
    \E i \in 1..(Len(s) + 1) :
        /\ i + Len(sub) - 1 <= Len(s)
        /\ SubSeq(s, i, i + Len(sub) - 1) = sub

\* strings.Split(s, "#")[0]
HashChar == 35
SplitHash0(s) ==
    IF \E i \in 1..Len(s) : s[i] = HashChar
    THEN SubSeq(s, 1, (CHOOSE i \in 1..Len(s) :
                          /\ s[i] = HashChar
                          /\ \A j \in 1..(i - 1) : s[j] # HashChar) - 1)
    ELSE s

RECURSIVE Itoa(_)
\* fmt.Sprintf("%d", n) for n >= 0
Itoa(n) == IF n < 10 THEN <<48 + n>> ELSE Itoa(n \div 10) \o <<48 + (n % 10)>>

-----------------------------------------------------------------------------
(* ULIDs (github.com/oklog/ulid): 10 characters of time, 16 of entropy,    *)
(* Crockford base 32, most significant digit first                         *)

CrockfordAlphabet ==
    <<48, 49, 50, 51, 52, 53, 54, 55, 56, 57,
      65, 66, 67, 68, 69, 70, 71, 72, 74, 75, 77, 78,
      80, 81, 82, 83, 84, 86, 87, 88, 89, 90>>

UlidTimeLen == 10
UlidEntropyLen == 16

RECURSIVE Pow32(_)
Pow32(k) == IF k = 0 THEN 1 ELSE 32 * Pow32(k - 1)

\* digit k (0 = least significant) of n in base 32; n < 2^31, so the digits
\* from 32^7 on are zero
Digit32(n, k) == IF k > 6 THEN 0 ELSE (n \div Pow32(k)) % 32

Base32(n, width) == [i \in 1..width |-> CrockfordAlphabet[Digit32(n, width - i) + 1]]

\* UlidString with the random part in front of the time part
UlidString_EntropyFirst(ms, entropy) == Base32(entropy, UlidEntropyLen) \o Base32(ms, UlidTimeLen)

\* ulid.MustNew(ulid.Timestamp(t), entropy).String(); entropy 0 is the nil reader
UlidString(ms, entropy) == Base32(ms, UlidTimeLen) \o Base32(entropy, UlidEntropyLen)

\* ulid.Timestamp(t): the instant in whole milliseconds
UlidTimestamp(t) == t

TimeToCursor(t) == UlidString(UlidTimestamp(t), 0)

-----------------------------------------------------------------------------
(* The log table and the backing store's operations on it *)

PartitionKey == "LOGS"
TTLDays == 180

NoneRequestID == <<110, 111, 110, 101>>     \* "none"

\* time.Now().Add(TTLDays * 24h).Unix()
ExpireAt(t) == (t \div 1000) + TTLDays * 24 * 3600

\* PutItem that replaces every item of the new item's millisecond (the ten
\* leading characters of the key)
PutItem_PerMillisecond(tbl, item) ==
    LET ms(key) == SubSeq(key, 1, 10)
        below == SelectSeq(tbl, LAMBDA x : StrLess(ms(x.timestamp_seq), ms(item.timestamp_seq)))
        above == SelectSeq(tbl, LAMBDA x : StrLess(ms(item.timestamp_seq), ms(x.timestamp_seq)))
    IN  below \o <<item>> \o above

\* PutItem: the item replaces the one with its key, or takes its place in
\* sort-key order
PutItem(tbl, item) ==
    LET below == SelectSeq(tbl, LAMBDA x : StrLess(x.timestamp_seq, item.timestamp_seq))
        above == SelectSeq(tbl, LAMBDA x : StrLess(item.timestamp_seq, x.timestamp_seq))
    IN  below \o <<item>> \o above

\* the key conditions of the queries
KeyMatches(cond, key) ==
    CASE cond.op = "gt"      -> StrLess(cond.cursor, key)
      [] cond.op = "lt"      -> StrLess(key, cond.cursor)
      [] cond.op = "between" -> StrLeq(cond.lo, key) /\ StrLeq(key, cond.hi)
      [] cond.op = "all"     -> TRUE

\* Query: the items of the partition that satisfy the key condition, in
\* sort-key order (ScanIndexForward) or its reverse; limit 0 is no Limit
Query(tbl, cond, scanForward, limit) ==
    LET hit == SelectSeq(tbl, LAMBDA x : KeyMatches(cond, x.timestamp_seq))
        ordered == IF scanForward THEN hit ELSE Reverse(hit)
    IN  IF limit > 0 THEN Take(ordered, limit) ELSE ordered

\* storeSingleItem keying the item by the Cursor the caller supplied
storeSingleItem_CallerCursor(tbl, entry, ulidStr, t) ==
    PutItem(tbl, [pk |-> PartitionKey,
                  timestamp_seq |-> (IF entry.Cursor # <<>> THEN entry.Cursor ELSE ulidStr)
                                        \o <<HashChar, 48>>,
                  timestamp |-> <<entry.Timestamp, entry.Nanos>>,
                  level |-> entry.Level,
                  message |-> entry.Message,
                  source |-> entry.Source,
                  logger |-> entry.Logger,
                  request_id |-> IF entry.RequestID = <<>> THEN NoneRequestID
                                 ELSE entry.RequestID,
                  expire_at |-> ExpireAt(t)])

\* the item storeSingleItem builds; timestamp stands for the RFC3339Nano
\* text, which keeps the instant to the nanosecond
dynamoDBLogItem(entry, ulidStr, t) ==
    [pk |-> PartitionKey,
     timestamp_seq |-> ulidStr \o <<HashChar, 48>>,
     timestamp |-> <<entry.Timestamp, entry.Nanos>>,
     level |-> entry.Level,
     message |-> entry.Message,
     source |-> entry.Source,
     logger |-> entry.Logger,
     request_id |-> IF entry.RequestID = <<>> THEN NoneRequestID ELSE entry.RequestID,
     expire_at |-> ExpireAt(t)]

storeSingleItem(tbl, entry, ulidStr, t) == PutItem(tbl, dynamoDBLogItem(entry, ulidStr, t))

\* " [CONTINUED i/n]" and "[CONTINUED i/n] "
ContinuedMark(i, n) ==
    <<91, 67, 79, 78, 84, 73, 78, 85, 69, 68, 32>> \o Itoa(i) \o <<47>> \o Itoa(n) \o <<93>>

\* NumParts rounding down
NumParts_Floor(size) == size \div MaxMessageSize

NumParts(size) == (size + MaxMessageSize - 1) \div MaxMessageSize

\* part i (0-based) of an oversized entry
PartEntry(entry, i) ==
    LET n == NumParts(Len(entry.Message))
        start == i * MaxMessageSize
        end == Min(start + MaxMessageSize, Len(entry.Message))
        body == SubSeq(entry.Message, start + 1, end)
        mark == ContinuedMark(i + 1, n)
    IN  [Level |-> entry.Level, Source |-> entry.Source, Logger |-> entry.Logger,
         RequestID |-> entry.RequestID, Timestamp |-> entry.Timestamp + i,
         Nanos |-> entry.Nanos,
         Cursor |-> <<>>,
         Message |-> IF i = 0 THEN body \o <<32>> \o mark
                     ELSE IF i = n - 1 THEN mark \o <<32>> \o body
                     ELSE mark \o <<32>> \o body \o <<32>> \o mark]

RECURSIVE StoreParts_SkipFailed(_, _, _, _, _, _)
\* StoreParts going on to the next part after a failed PutItem
StoreParts_SkipFailed(tbl, entry, entropy, failAt, t, i) ==
    IF i >= NumParts(Len(entry.Message)) THEN [tbl |-> tbl, err |-> FALSE, puts |-> <<>>]
    ELSE IF failAt = i + 1
    THEN [StoreParts_SkipFailed(tbl, entry, entropy, failAt, t, i + 1) EXCEPT !.err = TRUE]
    ELSE LET part == PartEntry(entry, i)
             id == UlidString(UlidTimestamp(part.Timestamp), entropy[i + 1])
             rest == StoreParts_SkipFailed(storeSingleItem(tbl, part, id, t), entry, entropy,
                                           failAt, t, i + 1)
         IN  [rest EXCEPT !.puts = <<dynamoDBLogItem(part, id, t)>> \o @]

RECURSIVE StoreParts(_, _, _, _, _, _)
\* the loop of StoreLogEntry over the parts i..n-1; PutItem number failAt
\* (1-based, 0 = none) fails and ends the loop; puts are the items of the
\* PutItem calls that succeeded, in call order
StoreParts(tbl, entry, entropy, failAt, t, i) ==
    IF i >= NumParts(Len(entry.Message)) THEN [tbl |-> tbl, err |-> FALSE, puts |-> <<>>]
    ELSE IF failAt = i + 1 THEN [tbl |-> tbl, err |-> TRUE, puts |-> <<>>]
    ELSE LET part == PartEntry(entry, i)
             id == UlidString(UlidTimestamp(part.Timestamp), entropy[i + 1])
             rest == StoreParts(storeSingleItem(tbl, part, id, t), entry, entropy,
                                failAt, t, i + 1)
         IN  [rest EXCEPT !.puts = <<dynamoDBLogItem(part, id, t)>> \o @]

\* StoreLogEntry: entropy[k] is the random part of the k-th identifier
StoreLogEntryResult(tbl, entry, entropy, failAt, t) ==
    IF Len(entry.Message) <= MaxMessageSize
    THEN IF failAt = 1 THEN [tbl |-> tbl, err |-> TRUE, puts |-> <<>>]
         ELSE LET id == UlidString(UlidTimestamp(entry.Timestamp), entropy[1])
              IN  [tbl |-> storeSingleItem(tbl, entry, id, t),
                   err |-> FALSE,
                   puts |-> <<dynamoDBLogItem(entry, id, t)>>]
    ELSE StoreParts(tbl, entry, entropy, failAt, t, 0)

unmarshalAndReassemble(its) ==
    [i \in 1..Len(its) |->
        [Level |-> its[i].level,
         Message |-> its[i].message,
         Source |-> its[i].source,
         Logger |-> its[i].logger,
         Timestamp |-> its[i].timestamp[1],
         Nanos |-> its[i].timestamp[2],
         RequestID |-> its[i].request_id,
         Cursor |-> SplitHash0(its[i].timestamp_seq)]]

DefaultLimit == 100
MaxLimit == 500

\* EffectiveLimit without the upper cap
EffectiveLimit_NoCap(limit) == IF limit <= 0 THEN DefaultLimit ELSE limit

\* the limit GetLogs works with
EffectiveLimit(limit) ==
    IF limit <= 0 THEN DefaultLimit
    ELSE IF limit > MaxLimit THEN MaxLimit
    ELSE limit

\* GetLogsCondition with the bare cursor as the bound (no "#0" suffix)
GetLogsCondition_BareCursor(afterCursor, beforeCursor) ==
    IF afterCursor # <<>>
    THEN [op |-> "gt", cursor |-> afterCursor, forward |-> TRUE]
    ELSE IF beforeCursor # <<>>
    THEN [op |-> "lt", cursor |-> beforeCursor \o <<HashChar, 49>>, forward |-> FALSE]
    ELSE [op |-> "all", forward |-> FALSE]

\* GetLogsCondition scanning in the opposite direction
GetLogsCondition_Flipped(afterCursor, beforeCursor) ==
    IF afterCursor # <<>>
    THEN [op |-> "gt", cursor |-> afterCursor \o <<HashChar, 48>>, forward |-> FALSE]
    ELSE IF beforeCursor # <<>>
    THEN [op |-> "lt", cursor |-> beforeCursor \o <<HashChar, 48>>, forward |-> FALSE]
    ELSE [op |-> "all", forward |-> TRUE]

GetLogsCondition(afterCursor, beforeCursor) ==
    IF afterCursor # <<>>
    THEN [op |-> "gt", cursor |-> afterCursor \o <<HashChar, 48>>, forward |-> TRUE]
    ELSE IF beforeCursor # <<>>
    THEN [op |-> "lt", cursor |-> beforeCursor \o <<HashChar, 48>>, forward |-> FALSE]
    ELSE [op |-> "all", forward |-> FALSE]

\* GetLogs without the re-reversal of a backward scan
GetLogs_NoReverse(tbl, limit, afterCursor, beforeCursor) ==
    LET lim == EffectiveLimit(limit)
        cond == GetLogsCondition(afterCursor, beforeCursor)
        allLogs == unmarshalAndReassemble(Query(tbl, cond, cond.forward, lim))
    IN  Take(allLogs, lim)

GetLogs(tbl, limit, afterCursor, beforeCursor) ==
    LET lim == EffectiveLimit(limit)
        cond == GetLogsCondition(afterCursor, beforeCursor)
        allLogs == unmarshalAndReassemble(Query(tbl, cond, cond.forward, lim))
        turned == IF beforeCursor # <<>> /\ ~cond.forward THEN Reverse(allLogs) ELSE allLogs
    IN  Take(turned, lim)

-----------------------------------------------------------------------------
(* The store runs: appends and cursor reads *)

LevelInfo == <<73, 78, 70, 79>>             \* "INFO"
LevelError == <<69, 82, 82, 79, 82>>        \* "ERROR"
SourceApp == <<97, 112, 112>>               \* "app"
MsgBoom == <<98, 111, 111, 109>>            \* "boom"
MsgFine == <<102, 105, 110, 101>>           \* "fine"

MkEntry(ts, level, msg) ==
    [Level |-> level, Message |-> msg, Source |-> SourceApp, Logger |-> <<>>,
     Timestamp |-> ts, Nanos |-> 0, RequestID |-> <<>>, Cursor |-> <<>>]

\* the entries the callers of the store runs append
StoreEntries ==
    {MkEntry(ts, LevelInfo, MsgFine) : ts \in 0..MaxTs} \cup {MkEntry(0, LevelError, MsgBoom)}

\* well-formed cursors: identifiers of entries (stored or not) and TimeToCursor
\* values, around the small tables and above the large one
CursorInputs ==
    {UlidString(t, e) : t \in 0..(MaxTs + 1), e \in 0..MaxEntropy}
        \cup {TimeToCursor(MaxLimit + 1)}

LimitInputs == {-1, 0, 1, 2, MaxLimit + 1}

\* a table of MaxLimit + 1 entries, one per millisecond, as MaxLimit + 1
\* appends leave it
LargeTable ==
    [i \in 1..(MaxLimit + 1) |->
        storeSingleItem(<<>>, MkEntry(i - 1, LevelInfo, MsgFine), UlidString(i - 1, 0), 0)[1]]

NoResp == [kind |-> "none"]
NoChain == [kind |-> "none"]

ReaderIdle == resp = NoResp /\ chain = NoChain

StoreLogEntry(entry, entropy, failAt) ==
    /\ ReaderIdle
    /\ Len(items) < MaxItems
    /\ LET r == StoreLogEntryResult(items, entry, entropy, failAt, now)
       IN  items' = r.tbl
    /\ UNCHANGED <<now, resp, chain, rules, dedup, inv, evals, sends, sessions, web, appender>>

\* one GetLogs call; queryFails is the backing store refusing the query
GetLogsCall(limit, afterCursor, beforeCursor, queryFails) ==
    /\ ReaderIdle
    /\ resp' = [kind |-> "GetLogs", limit |-> limit, after |-> afterCursor,
                before |-> beforeCursor, err |-> queryFails,
                logs |-> IF queryFails THEN <<>>
                         ELSE GetLogs(items, limit, afterCursor, beforeCursor)]
    /\ UNCHANGED <<now, items, chain, rules, dedup, inv, evals, sends, sessions, web, appender>>

\* a reader starts a chain of afterCursor pages at cursor start (on the large
\* table with the limits that give pages of DefaultLimit or MaxLimit entries)
ChainStart(limit, start) ==
    /\ ReaderIdle
    /\ Len(items) <= MaxItems \/ limit <= 0 \/ limit > MaxLimit
    /\ chain' = [kind |-> "chain", limit |-> limit, start |-> start, cursor |-> start,
                 acc |-> <<>>, pages |-> 0, done |-> FALSE]
    /\ UNCHANGED <<now, items, resp, rules, dedup, inv, evals, sends, sessions, web, appender>>

\* the next page: GetLogs(limit, afterCursor = last cursor of the previous page)
ChainNext ==
    /\ chain.kind = "chain"
    /\ ~chain.done
    /\ LET page == GetLogs(items, chain.limit, chain.cursor, <<>>)
       IN  chain' = IF page = <<>>
                    THEN [chain EXCEPT !.done = TRUE]
                    ELSE [chain EXCEPT !.acc = @ \o page,
                                       !.cursor = page[Len(page)].Cursor,
                                       !.pages = @ + 1]
    /\ UNCHANGED <<now, items, resp, rules, dedup, inv, evals, sends, sessions, web, appender>>

\* the reader takes the response, or gives up the chain
ReaderReturn ==
    /\ ~ReaderIdle
    /\ resp' = NoResp
    /\ chain' = NoChain
    /\ UNCHANGED <<now, items, rules, dedup, inv, evals, sends, sessions, web, appender>>

StoreInit ==
    /\ now = 0
    /\ items \in {<<>>, LargeTable}
    /\ resp = NoResp
    /\ chain = NoChain
    /\ rules = <<>>
    /\ dedup = <<>>
    /\ inv = <<>>
    /\ evals = <<>>
    /\ sends = <<>>
    /\ sessions = <<>>
    /\ web = <<>>
    /\ appender = <<>>

StoreNext ==
    \/ \E entry \in StoreEntries, e \in 0..MaxEntropy, failAt \in 0..1 :
          StoreLogEntry(entry, <<e>>, failAt)
    \/ \E limit \in LimitInputs, c \in CursorInputs :
          \/ GetLogsCall(limit, c, <<>>, FALSE)
          \/ GetLogsCall(limit, <<>>, c, FALSE)
          \/ GetLogsCall(limit, c, c, FALSE)
    \/ \E limit \in LimitInputs, f \in BOOLEAN : GetLogsCall(limit, <<>>, <<>>, f)
    \/ \E limit \in LimitInputs, c \in CursorInputs : ChainStart(limit, c)
    \/ ChainNext
    \/ ReaderReturn

SpecStore == StoreInit /\ [][StoreNext]_vars

-----------------------------------------------------------------------------
(* The append runs: StoreLogEntry with messages around the split size and  *)
(* timestamps that differ below the millisecond                            *)

\* a message of the given size whose bytes tell their position
MessageOfSize(size) == [i \in 1..size |-> 97 + ((i - 1) % 26)]

HalfMillisecond == 500000

\* one part at the boundary, two parts, three parts
AppendSizes == {MaxMessageSize, MaxMessageSize + 1, 2 * MaxMessageSize + 1}

AppendEntries ==
    {[MkEntry(ts, LevelInfo, MessageOfSize(size)) EXCEPT !.Nanos = ns] :
        ts \in {0, 1}, size \in AppendSizes, ns \in {0, HalfMillisecond}}

\* the random parts of the identifiers of up to three parts
AppendEntropy == {<<e, MaxEntropy - e, e>> : e \in {0, MaxEntropy}}

\* one StoreLogEntry call; the call and what it put are kept in resp
AppendCall(entry, entropy, failAt) ==
    /\ Len(items) + NumParts(Len(entry.Message)) <= MaxItems
    /\ LET r == StoreLogEntryResult(items, entry, entropy, failAt, now)
       IN  /\ items' = r.tbl
           /\ resp' = [kind |-> "StoreLogEntry", entry |-> entry, err |-> r.err,
                       puts |-> r.puts]
    /\ UNCHANGED <<now, chain, rules, dedup, inv, evals, sends, sessions, web, appender>>

AppendInit ==
    /\ now = 0
    /\ items = <<>>
    /\ resp = NoResp
    /\ chain = NoChain
    /\ rules = <<>>
    /\ dedup = <<>>
    /\ inv = <<>>
    /\ evals = <<>>
    /\ sends = <<>>
    /\ sessions = <<>>
    /\ web = <<>>
    /\ appender = <<>>

AppendNext ==
    \E entry \in AppendEntries, entropy \in AppendEntropy, failAt \in {0, 1, 2, 3} :
        AppendCall(entry, entropy, failAt)

SpecAppend == AppendInit /\ [][AppendNext]_vars

-----------------------------------------------------------------------------
(* The chunk-group store variant (src/unnamed/part_001, package store):    *)
(* an oversized message is stored as items <id>#0 .. <id>#(n-1) and put    *)
(* together again on reading                                               *)

\* the item of chunk chunkIndex of totalChunks
ChunkItem(entry, ulidStr, chunkIndex, totalChunks, message, t) ==
    [pk |-> PartitionKey,
     timestamp_seq |-> ulidStr \o <<HashChar>> \o Itoa(chunkIndex),
     timestamp |-> <<entry.Timestamp, entry.Nanos>>,
     level |-> entry.Level,
     message |-> message,
     source |-> entry.Source,
     logger |-> entry.Logger,
     request_id |-> IF entry.RequestID = <<>> THEN NoneRequestID ELSE entry.RequestID,
     chunk_index |-> chunkIndex,
     total_chunks |-> totalChunks,
     expire_at |-> ExpireAt(t)]

RECURSIVE storeChunkedItems(_, _, _, _, _, _)
\* the loop of storeChunkedItems over the chunks i..n-1; PutItem number
\* failAt (1-based, 0 = none) fails and ends the loop
storeChunkedItems(tbl, entry, ulidStr, failAt, t, i) ==
    LET size == Len(entry.Message)
        totalChunks == (size + MaxMessageSize - 1) \div MaxMessageSize
        start == i * MaxMessageSize
        end == Min(start + MaxMessageSize, size)
        chunk == SubSeq(entry.Message, start + 1, end)
    IN  IF i >= totalChunks THEN [tbl |-> tbl, err |-> FALSE]
        ELSE IF failAt = i + 1 THEN [tbl |-> tbl, err |-> TRUE]
        ELSE storeChunkedItems(
                 PutItem(tbl, ChunkItem(entry, ulidStr, i, totalChunks, chunk, t)),
                 entry, ulidStr, failAt, t, i + 1)

\* StoreLogEntry of the variant: one identifier for the whole entry
ChunkStoreLogEntry(tbl, entry, entropy, failAt, t) ==
    LET ulidStr == UlidString(UlidTimestamp(entry.Timestamp), entropy)
    IN  IF Len(entry.Message) <= MaxMessageSize
        THEN IF failAt = 1 THEN [tbl |-> tbl, err |-> TRUE]
             ELSE [tbl |-> PutItem(tbl, ChunkItem(entry, ulidStr, 0, 1, entry.Message, t)),
                   err |-> FALSE]
        ELSE storeChunkedItems(tbl, entry, ulidStr, failAt, t, 0)

\* the identifiers of the chunk groups among the items
ChunkGroups(its) ==
    {SplitHash0(its[i].timestamp_seq) : i \in {k \in 1..Len(its) : its[k].total_chunks > 1}}

\* the orders in which the range over the map of chunk groups can run
GroupOrders(its) ==
    {o \in [1..Cardinality(ChunkGroups(its)) -> ChunkGroups(its)] :
        \A i, j \in 1..Cardinality(ChunkGroups(its)) : i # j => o[i] # o[j]}

\* ChunkUnmarshalAndReassemble leaving out the groups of which a chunk is
\* missing
ChunkUnmarshalAndReassemble_DropPartial(its, order) ==
    LET chunksOf(u) ==
            SelectSeq(its, LAMBDA x : x.total_chunks > 1 /\ SplitHash0(x.timestamp_seq) = u)
        whole == SelectSeq(order, LAMBDA u : Len(chunksOf(u)) >= chunksOf(u)[1].total_chunks)
        singleMessages == SelectSeq(its, LAMBDA x : ~(x.total_chunks > 1))
        entryOf(first, message) ==
            [Level |-> first.level, Message |-> message, Source |-> first.source,
             Logger |-> first.logger, Timestamp |-> first.timestamp[1],
             Nanos |-> first.timestamp[2], RequestID |-> first.request_id,
             Cursor |-> SplitHash0(first.timestamp_seq)]
        Join(chunks) ==
            LET F[k \in 0..Len(chunks)] ==
                    IF k = 0 THEN <<>> ELSE F[k - 1] \o chunks[k].message
            IN  F[Len(chunks)]
    IN  [k \in 1..Len(whole) |-> entryOf(chunksOf(whole[k])[1], Join(chunksOf(whole[k])))]
        \o [k \in 1..Len(singleMessages) |-> entryOf(singleMessages[k], singleMessages[k].message)]

\* unmarshalAndReassemble of the variant: the chunks of a group are appended
\* in the order of the items; the groups come first, in map order, then the
\* single items
ChunkUnmarshalAndReassemble(its, order) ==
    LET chunksOf(u) ==
            SelectSeq(its, LAMBDA x : x.total_chunks > 1 /\ SplitHash0(x.timestamp_seq) = u)
        singleMessages == SelectSeq(its, LAMBDA x : ~(x.total_chunks > 1))
        entryOf(first, message) ==
            [Level |-> first.level, Message |-> message, Source |-> first.source,
             Logger |-> first.logger, Timestamp |-> first.timestamp[1],
             Nanos |-> first.timestamp[2], RequestID |-> first.request_id,
             Cursor |-> SplitHash0(first.timestamp_seq)]
        Join(chunks) ==
            LET F[k \in 0..Len(chunks)] ==
                    IF k = 0 THEN <<>> ELSE F[k - 1] \o chunks[k].message
            IN  F[Len(chunks)]
    IN  [k \in 1..Len(order) |-> entryOf(chunksOf(order[k])[1], Join(chunksOf(order[k])))]
        \o [k \in 1..Len(singleMessages) |-> entryOf(singleMessages[k], singleMessages[k].message)]

\* the items the range query of the variant fetches (backward scan)
ChunkRangeItems(tbl, startTime, endTime) ==
    Query(tbl,
          [op |-> "between",
           lo |-> UlidString(UlidTimestamp(startTime), 0) \o <<HashChar, 48>>,
           hi |-> UlidString(UlidTimestamp(endTime), 0) \o <<HashChar, 57, 57, 57>>],
          FALSE, 0)

\* the items GetLogs of the variant fetches: twice the limit
ChunkGetLogsItems(tbl, limit, afterCursor, beforeCursor) ==
    LET cond == GetLogsCondition(afterCursor, beforeCursor)
    IN  Query(tbl, cond, cond.forward, EffectiveLimit(limit) * 2)

\* one StoreLogEntry call of the variant
ChunkAppend(entry, entropy, failAt) ==
    /\ Len(items) + NumParts(Len(entry.Message)) <= MaxItems
    /\ LET r == ChunkStoreLogEntry(items, entry, entropy, failAt, now)
       IN  /\ items' = r.tbl
           /\ resp' = [kind |-> "StoreLogEntry", entry |-> entry, err |-> r.err,
                       id |-> UlidString(UlidTimestamp(entry.Timestamp), entropy)]
    /\ UNCHANGED <<now, chain, rules, dedup, inv, evals, sends, sessions, web, appender>>

\* the pages in which the backing store hands over the items of a paginated
\* query: one page, or two with the first cut items on the first
ChunkPages(fetched, cut) ==
    IF cut < 1 \/ cut >= Len(fetched) THEN <<fetched>>
    ELSE <<SubSeq(fetched, 1, cut), SubSeq(fetched, cut + 1, Len(fetched))>>

\* for every page, an order in which the range over its chunk groups can run
PageOrders(pages) ==
    IF Len(pages) = 1 THEN {<<o>> : o \in GroupOrders(pages[1])}
    ELSE {<<o1, o2>> : o1 \in GroupOrders(pages[1]), o2 \in GroupOrders(pages[2])}

\* the loop of queryLogsByTimeRange of the variant over the pages: every page
\* is put together on its own and the results are appended
ChunkQueryLogsByTimeRange(pages, orders) ==
    LET decoded == [p \in 1..Len(pages) |-> ChunkUnmarshalAndReassemble(pages[p], orders[p])]
    IN  [decoded |-> decoded,
         logs |-> IF Len(pages) = 1 THEN decoded[1] ELSE decoded[1] \o decoded[2]]

\* one queryLogsByTimeRange call of the variant; pages and decoded are the
\* argument and the result of each unmarshalAndReassemble call
ChunkRangeRead(startTime, endTime, cut) ==
    /\ items # <<>>
    /\ LET fetched == ChunkRangeItems(items, startTime, endTime)
           pages == ChunkPages(fetched, cut)
       IN  \E orders \in PageOrders(pages) :
              LET r == ChunkQueryLogsByTimeRange(pages, orders)
              IN  resp' = [kind |-> "queryLogsByTimeRange", fetched |-> fetched,
                           pages |-> pages, decoded |-> r.decoded, err |-> FALSE,
                           limit |-> 0, after |-> <<>>, before |-> <<>>,
                           logs |-> r.logs]
    /\ UNCHANGED <<now, items, chain, rules, dedup, inv, evals, sends, sessions, web, appender>>

\* one GetLogs call of the variant
ChunkGetLogs(limit, afterCursor, beforeCursor) ==
    /\ items # <<>>
    /\ LET fetched == ChunkGetLogsItems(items, limit, afterCursor, beforeCursor)
           lim == EffectiveLimit(limit)
       IN  \E order \in GroupOrders(fetched) :
              LET allLogs == ChunkUnmarshalAndReassemble(fetched, order)
                  turned == IF beforeCursor # <<>> /\ afterCursor = <<>>
                            THEN Reverse(allLogs) ELSE allLogs
              IN  resp' = [kind |-> "GetLogs", fetched |-> fetched,
                           pages |-> <<fetched>>, decoded |-> <<allLogs>>, err |-> FALSE,
                           limit |-> limit, after |-> afterCursor, before |-> beforeCursor,
                           logs |-> Take(turned, lim)]
    /\ UNCHANGED <<now, items, chain, rules, dedup, inv, evals, sends, sessions, web, appender>>

\* the cursors the readers of the chunk runs pass
ChunkCursors == {UlidString(0, 0), UlidString(1, MaxEntropy)}

ChunkNext ==
    \/ \E entry \in {x \in AppendEntries : x.Nanos = 0}, e \in {0, MaxEntropy}, failAt \in {0, 2, 3} :
          ChunkAppend(entry, e, failAt)
    \/ \E startTime \in 0..1, endTime \in 1..2, cut \in 0..2 :
          ChunkRangeRead(startTime, endTime, cut)
    \/ \E limit \in {1, 2}, c \in ChunkCursors :
          \/ ChunkGetLogs(limit, <<>>, <<>>)
          \/ ChunkGetLogs(limit, c, <<>>)
          \/ ChunkGetLogs(limit, <<>>, c)

SpecChunk == AppendInit /\ [][ChunkNext]_vars

-----------------------------------------------------------------------------
(* Time-range reads and search *)

\* queryLogsByTimeRange: every page of the backward range query
queryLogsByTimeRange(tbl, startTime, endTime) ==
    LET startULID == UlidString(UlidTimestamp(startTime), 0)
        endULID == UlidString(UlidTimestamp(endTime), 0)
        cond == [op |-> "between",
                 lo |-> startULID \o <<HashChar, 48>>,
                 hi |-> endULID \o <<HashChar, 57, 57, 57>>]
    IN  unmarshalAndReassemble(Query(tbl, cond, FALSE, 0))

\* EntryMatches that also looks into the logger
EntryMatches_WithLogger(e, lowerQuery) ==
    \/ Contains(ToLower(e.Message), lowerQuery)
    \/ Contains(ToLower(e.Level), lowerQuery)
    \/ Contains(ToLower(e.Source), lowerQuery)
    \/ Contains(ToLower(e.Logger), lowerQuery)

EntryMatches(e, lowerQuery) ==
    \/ Contains(ToLower(e.Message), lowerQuery)
    \/ Contains(ToLower(e.Level), lowerQuery)
    \/ Contains(ToLower(e.Source), lowerQuery)

\* the loop of SearchLogsWithLimit: the matches are appended to filtered in
\* the order of logs, and the loop breaks once limit > 0 of them are found,
\* which leaves the first limit matches
SearchLoop(logs, lowerQuery, limit) ==
    LET Matches(e) == EntryMatches(e, lowerQuery)
        filtered == SelectSeq(logs, Matches)
    IN  IF limit > 0 /\ Len(filtered) > limit THEN SubSeq(filtered, 1, limit) ELSE filtered

SearchLogsWithLimit(tbl, query, startTime, endTime, limit) ==
    LET logs == queryLogsByTimeRange(tbl, startTime, endTime)
    IN  IF query = <<>>
        THEN IF limit > 0 /\ Len(logs) > limit THEN SubSeq(logs, 1, limit) ELSE logs
        ELSE SearchLoop(logs, ToLower(query), limit)

SearchLogs(tbl, query, startTime, endTime) ==
    SearchLogsWithLimit(tbl, query, startTime, endTime, 0)

\* getLogsByTimeRangeWithDirection that scans backward whatever is asked
getLogsByTimeRangeWithDirection_AlwaysBackward(tbl, startTime, endTime, limit, scanForward) ==
    LET cond == [op |-> "between",
                 lo |-> UlidString(UlidTimestamp(startTime), 0) \o <<HashChar, 48>>,
                 hi |-> UlidString(UlidTimestamp(endTime), 0) \o <<HashChar, 57, 57, 57>>]
        allLogs == unmarshalAndReassemble(Query(tbl, cond, FALSE, limit * 2))
    IN  IF limit * 2 < 1 THEN [err |-> TRUE, logs |-> <<>>]
        ELSE [err |-> FALSE, logs |-> Take(allLogs, limit)]

\* getLogsByTimeRangeWithDirection: one Query with Limit 2 * limit, which
\* the backing store refuses unless it is at least 1
getLogsByTimeRangeWithDirection(tbl, startTime, endTime, limit, scanForward) ==
    LET startULID == UlidString(UlidTimestamp(startTime), 0)
        endULID == UlidString(UlidTimestamp(endTime), 0)
        cond == [op |-> "between",
                 lo |-> startULID \o <<HashChar, 48>>,
                 hi |-> endULID \o <<HashChar, 57, 57, 57>>]
        allLogs == unmarshalAndReassemble(Query(tbl, cond, scanForward, limit * 2))
    IN  IF limit * 2 < 1 THEN [err |-> TRUE, logs |-> <<>>]
        ELSE [err |-> FALSE,
              logs |-> IF Len(allLogs) > limit THEN SubSeq(allLogs, 1, limit) ELSE allLogs]

GetLogsByTimeRange(tbl, startTime, endTime, limit) ==
    getLogsByTimeRangeWithDirection(tbl, startTime, endTime, limit, FALSE)

GetLogsByTimeRangeForward(tbl, startTime, endTime, limit) ==
    getLogsByTimeRangeWithDirection(tbl, startTime, endTime, limit, TRUE)

-----------------------------------------------------------------------------
(* The range runs: appends, then time-range reads and searches *)

SourceWeb == <<119, 101, 98>>               \* "web"
MsgBoomCapital == <<66, 111, 111, 109>>     \* "Boom"
QueryBoom == <<66, 79, 79, 77>>             \* "BOOM"
QueryInfo == <<105, 110, 102, 111>>         \* "info"
QueryWeb == <<87, 69, 66>>                  \* "WEB"

\* an ERROR entry with "Boom" in its message, and an INFO entry of source
\* "web" with "boom" only in its logger and request id
RangeEntries ==
    {MkEntry(ts, LevelError, MsgBoomCapital) : ts \in 0..MaxTs}
        \cup {[MkEntry(ts, LevelInfo, MsgFine) EXCEPT
                  !.Source = SourceWeb, !.Logger = MsgBoom, !.RequestID = MsgBoom] :
              ts \in 0..MaxTs}

RangeQueries == {<<>>, QueryBoom, QueryInfo, QueryWeb}

RangeStarts == {0, 1}
RangeEnds == {1, 2}

RangeAppend(entry, entropy) ==
    /\ ReaderIdle
    /\ Len(items) < MaxItems
    /\ items' = StoreLogEntryResult(items, entry, <<entropy>>, 0, now).tbl
    /\ UNCHANGED <<now, resp, chain, rules, dedup, inv, evals, sends, sessions, web, appender>>

RangeQueryCall(startTime, endTime) ==
    /\ ReaderIdle
    /\ resp' = [kind |-> "queryLogsByTimeRange", start |-> startTime, end |-> endTime,
                err |-> FALSE, logs |-> queryLogsByTimeRange(items, startTime, endTime)]
    /\ UNCHANGED <<now, items, chain, rules, dedup, inv, evals, sends, sessions, web, appender>>

SearchCall(query, startTime, endTime, limit) ==
    /\ ReaderIdle
    /\ resp' = [kind |-> "SearchLogsWithLimit", query |-> query, start |-> startTime,
                end |-> endTime, limit |-> limit, err |-> FALSE,
                logs |-> SearchLogsWithLimit(items, query, startTime, endTime, limit)]
    /\ UNCHANGED <<now, items, chain, rules, dedup, inv, evals, sends, sessions, web, appender>>

TimeRangeCall(startTime, endTime, limit, scanForward) ==
    /\ ReaderIdle
    /\ LET r == getLogsByTimeRangeWithDirection(items, startTime, endTime, limit, scanForward)
       IN  resp' = [kind |-> "GetLogsByTimeRange", start |-> startTime, end |-> endTime,
                    limit |-> limit, forward |-> scanForward, err |-> r.err, logs |-> r.logs]
    /\ UNCHANGED <<now, items, chain, rules, dedup, inv, evals, sends, sessions, web, appender>>

RangeNext ==
    \/ \E entry \in RangeEntries, e \in {0, MaxEntropy} : RangeAppend(entry, e)
    \/ \E startTime \in RangeStarts, endTime \in RangeEnds :
          \/ RangeQueryCall(startTime, endTime)
          \/ \E query \in RangeQueries, limit \in {0, 1, 2} :
                SearchCall(query, startTime, endTime, limit)
          \/ \E limit \in {0, 1, 2}, scanForward \in BOOLEAN :
                TimeRangeCall(startTime, endTime, limit, scanForward)
    \/ ReaderReturn

SpecRange == AppendInit /\ [][RangeNext]_vars

-----------------------------------------------------------------------------
(* The cursor runs: appends of entries that arrive with a Cursor already   *)
(* set, and reads                                                          *)

\* Cursor values of incoming entries: none, the identifier of another
\* instant, a text that is no identifier
CallerCursors == {<<>>, UlidString(MaxTs + 1, MaxEntropy), <<97, 98, 99>>}

\* the entries that arrive with a Cursor are the ones of level ERROR
CursorEntries ==
    {[MkEntry(ts, IF c = <<>> THEN LevelInfo ELSE LevelError, MsgFine) EXCEPT !.Cursor = c] :
        ts \in 0..1, c \in CallerCursors}

CursorAppend(entry, entropy, storeFails) ==
    /\ Len(items) < MaxItems
    /\ LET r == StoreLogEntryResult(items, entry, <<entropy>>, IF storeFails THEN 1 ELSE 0, now)
       IN  /\ items' = r.tbl
           /\ resp' = [kind |-> "StoreLogEntry", entry |-> entry, entropy |-> entropy,
                       err |-> r.err]
    /\ UNCHANGED <<now, chain, rules, dedup, inv, evals, sends, sessions, web, appender>>

CursorGetLogs(limit, afterCursor, beforeCursor) ==
    /\ resp' = [kind |-> "GetLogs", err |-> FALSE,
                logs |-> GetLogs(items, limit, afterCursor, beforeCursor)]
    /\ UNCHANGED <<now, items, chain, rules, dedup, inv, evals, sends, sessions, web, appender>>

CursorRangeRead(startTime, endTime) ==
    /\ resp' = [kind |-> "queryLogsByTimeRange", err |-> FALSE,
                logs |-> queryLogsByTimeRange(items, startTime, endTime)]
    /\ UNCHANGED <<now, items, chain, rules, dedup, inv, evals, sends, sessions, web, appender>>

CursorNext ==
    \/ \E entry \in CursorEntries, e \in {0, MaxEntropy}, storeFails \in BOOLEAN :
          CursorAppend(entry, e, storeFails)
    \/ \E limit \in {0, 1}, afterCursor \in {<<>>, UlidString(0, 0)},
          beforeCursor \in {<<>>, UlidString(1, MaxEntropy)} :
          CursorGetLogs(limit, afterCursor, beforeCursor)
    \/ \E startTime \in {0, 1}, endTime \in {1, 2} : CursorRangeRead(startTime, endTime)

SpecCursor == AppendInit /\ [][CursorNext]_vars

-----------------------------------------------------------------------------
(* Reads whose date or cursor comes from the caller as text.  Instant 0 is *)
(* 1970-01-01T00:00:00Z.                                                   *)

IsDigit(c) == c >= 48 /\ c <= 57

\* the number written by the digits s[a..b]
RECURSIVE DigitsValue(_, _, _)
DigitsValue(s, a, b) == IF b < a THEN 0 ELSE 10 * DigitsValue(s, a, b - 1) + (s[b] - 48)

IsLeap(y) == (y % 4 = 0 /\ y % 100 # 0) \/ y % 400 = 0

DaysInMonth(y, mo) ==
    IF mo = 2 THEN (IF IsLeap(y) THEN 29 ELSE 28)
    ELSE IF mo \in {4, 6, 9, 11} THEN 30 ELSE 31

RECURSIVE DaysBeforeMonth(_, _)
DaysBeforeMonth(y, mo) ==
    IF mo = 1 THEN 0 ELSE DaysBeforeMonth(y, mo - 1) + DaysInMonth(y, mo - 1)

LeapsBefore(y) == ((y - 1) \div 4) - ((y - 1) \div 100) + ((y - 1) \div 400)

DaysBeforeYear(y) == 365 * (y - 1970) + LeapsBefore(y) - LeapsBefore(1970)

DayMs == 86400000

\* time.Parse("2006-01-02", date): four digits, '-', two digits, '-', two
\* digits and nothing else, naming a day of the calendar; the instant is
\* that day's midnight UTC
ParseDate(date) ==
    IF \/ Len(date) # 10
       \/ \E i \in {1, 2, 3, 4, 6, 7, 9, 10} : ~IsDigit(date[i])
       \/ date[5] # 45 \/ date[8] # 45
    THEN [err |-> TRUE, t |-> 0]
    ELSE LET y == DigitsValue(date, 1, 4)
             mo == DigitsValue(date, 6, 7)
             d == DigitsValue(date, 9, 10)
         IN  IF mo < 1 \/ mo > 12 THEN [err |-> TRUE, t |-> 0]
             ELSE IF d < 1 \/ d > DaysInMonth(y, mo) THEN [err |-> TRUE, t |-> 0]
             ELSE [err |-> FALSE,
                   t |-> (DaysBeforeYear(y) + DaysBeforeMonth(y, mo) + d - 1) * DayMs]

\* GetLogsByDate; queried tells whether the backing store was asked
GetLogsByDate(tbl, date) ==
    LET p == ParseDate(date)
    IN  IF p.err THEN [err |-> TRUE, queried |-> FALSE, logs |-> <<>>]
        ELSE [err |-> FALSE, queried |-> TRUE,
              logs |-> queryLogsByTimeRange(tbl, p.t, p.t + DayMs)]

\* the value of a character of the Crockford alphabet
Dec32(c) == (CHOOSE k \in 1..32 : CrockfordAlphabet[k] = c) - 1

RECURSIVE DecodeTime(_, _)
\* the number written by the first k characters of v
DecodeTime(v, k) == IF k = 0 THEN 0 ELSE 32 * DecodeTime(v, k - 1) + Dec32(v[k])

\* ulid.Parse(v) on texts over the Crockford alphabet: the text must have 26
\* characters and a first character of at most '7'; ms is its time part
ulidParse(v) ==
    IF Len(v) # UlidTimeLen + UlidEntropyLen THEN [err |-> TRUE, ms |-> 0]
    ELSE IF v[1] > 55 THEN [err |-> TRUE, ms |-> 0]
    ELSE [err |-> FALSE, ms |-> DecodeTime(v, UlidTimeLen)]

\* SearchLogsWithCursor
SearchLogsWithCursor(tbl, query, startTime, endTime, beforeCursor, limit) ==
    LET p == ulidParse(beforeCursor)
    IN  IF beforeCursor # <<>> /\ p.err THEN [err |-> TRUE, queried |-> FALSE, logs |-> <<>>]
        ELSE LET effectiveEndTime == IF beforeCursor # <<>> THEN p.ms ELSE endTime
                 all == queryLogsByTimeRange(tbl, startTime, effectiveEndTime)
                 IsBefore(e) == StrLess(e.Cursor, beforeCursor)
                 logs == IF beforeCursor # <<>> THEN SelectSeq(all, IsBefore) ELSE all
             IN  [err |-> FALSE, queried |-> TRUE,
                  logs |-> IF query = <<>>
                           THEN (IF limit > 0 /\ Len(logs) > limit
                                 THEN SubSeq(logs, 1, limit) ELSE logs)
                           ELSE SearchLoop(logs, ToLower(query), limit)]

\* dates a caller sends: two days, a date without the leading zeros, one
\* with slashes, a thirteenth month, a thirtieth of February, no text
DateInputs ==
    {<<49, 57, 55, 48, 45, 48, 49, 45, 48, 49>>, <<49, 57, 55, 48, 45, 48, 49, 45, 48, 50>>,
     <<49, 57, 55, 48, 45, 49, 45, 49>>, <<48, 49, 47, 48, 49, 47, 49, 57, 55, 48>>,
     <<49, 57, 55, 48, 45, 49, 51, 45, 48, 49>>, <<49, 57, 55, 48, 45, 48, 50, 45, 51, 48>>, <<>>}

\* a text of 26 characters that is above every identifier
OverflowCursor == <<56>> \o Base32(0, UlidTimeLen + UlidEntropyLen - 1)

\* cursors a caller sends: none, an identifier, a short text, a text of the
\* length of an identifier that is none
TextCursors == {<<>>, UlidString(1, 0), <<97, 98, 99>>, OverflowCursor}

InputAppend(entry, entropy) ==
    /\ Len(items) < MaxItems
    /\ items' = StoreLogEntryResult(items, entry, <<entropy>>, 0, now).tbl
    /\ UNCHANGED <<now, resp, chain, rules, dedup, inv, evals, sends, sessions, web, appender>>

GetLogsByDateCall(date) ==
    /\ LET r == GetLogsByDate(items, date)
       IN  resp' = [kind |-> "GetLogsByDate", date |-> date,
                    err |-> r.err, queried |-> r.queried, logs |-> r.logs]
    /\ UNCHANGED <<now, items, chain, rules, dedup, inv, evals, sends, sessions, web, appender>>

SearchLogsWithCursorCall(query, startTime, endTime, beforeCursor, limit) ==
    /\ LET r == SearchLogsWithCursor(items, query, startTime, endTime, beforeCursor, limit)
       IN  resp' = [kind |-> "SearchLogsWithCursor", before |-> beforeCursor,
                    err |-> r.err, queried |-> r.queried, logs |-> r.logs]
    /\ UNCHANGED <<now, items, chain, rules, dedup, inv, evals, sends, sessions, web, appender>>

\* GetLogs with cursors as the caller wrote them: the Query is issued
\* whatever they are
GetLogsTextCall(limit, afterCursor, beforeCursor) ==
    /\ resp' = [kind |-> "GetLogs", after |-> afterCursor, before |-> beforeCursor,
                err |-> FALSE, queried |-> TRUE,
                logs |-> GetLogs(items, limit, afterCursor, beforeCursor)]
    /\ UNCHANGED <<now, items, chain, rules, dedup, inv, evals, sends, sessions, web, appender>>

InputNext ==
    \/ \E ts \in 0..1, entropy \in {0, MaxEntropy} :
          InputAppend(MkEntry(ts, LevelInfo, MsgFine), entropy)
    \/ \E date \in DateInputs : GetLogsByDateCall(date)
    \/ \E query \in {<<>>, MsgFine}, beforeCursor \in TextCursors, limit \in {0, 1} :
          SearchLogsWithCursorCall(query, 0, MaxTs, beforeCursor, limit)
    \/ \E limit \in {0, 1}, afterCursor \in TextCursors, beforeCursor \in TextCursors :
          GetLogsTextCall(limit, afterCursor, beforeCursor)

SpecInputs == AppendInit /\ [][InputNext]_vars

-----------------------------------------------------------------------------
(* The paging runs: appends, then a reader chaining search pages with      *)
(* before=<last cursor of the previous page>                               *)

\* the random parts of the identifiers of the paging runs: the nil reader's
\* zero and two values of rand.Reader
PagingEntropy == {0, MaxEntropy, MaxEntropy + 1}

PagingAppend(entry, entropy) ==
    /\ chain = NoChain
    /\ Len(items) < MaxItems
    /\ items' = StoreLogEntryResult(items, entry, <<entropy>>, 0, now).tbl
    /\ UNCHANGED <<now, resp, chain, rules, dedup, inv, evals, sends, sessions, web, appender>>

\* the first page: searchLogs without the before parameter
SearchChainStart(query, startTime, endTime, limit) ==
    /\ chain = NoChain
    /\ items # <<>>
    /\ LET page == SearchLogsWithCursor(items, query, startTime, endTime, <<>>, limit).logs
       IN  chain' = [kind |-> "search", query |-> query, start |-> startTime,
                     end |-> endTime, limit |-> limit, acc |-> page, pages |-> 1,
                     cursor |-> IF page = <<>> THEN <<>> ELSE page[Len(page)].Cursor,
                     done |-> page = <<>>]
    /\ UNCHANGED <<now, items, resp, rules, dedup, inv, evals, sends, sessions, web, appender>>

\* the next page: the same request with before=<last cursor received>; an
\* empty page ends the chain
SearchChainNext ==
    /\ chain # NoChain
    /\ ~chain.done
    /\ LET page == SearchLogsWithCursor(items, chain.query, chain.start, chain.end,
                                        chain.cursor, chain.limit).logs
       IN  chain' = IF page = <<>>
                    THEN [chain EXCEPT !.done = TRUE]
                    ELSE [chain EXCEPT !.acc = @ \o page,
                                       !.cursor = page[Len(page)].Cursor,
                                       !.pages = @ + 1]
    /\ UNCHANGED <<now, items, resp, rules, dedup, inv, evals, sends, sessions, web, appender>>

\* the reader is done with the chain
SearchChainReturn ==
    /\ chain # NoChain
    /\ chain.done
    /\ chain' = NoChain
    /\ UNCHANGED <<now, items, resp, rules, dedup, inv, evals, sends, sessions, web, appender>>

PagingNext ==
    \/ \E entry \in {e \in RangeEntries : e.Timestamp <= 1}, entropy \in PagingEntropy :
          PagingAppend(entry, entropy)
    \/ \E query \in {<<>>, QueryBoom}, limit \in {1, 2} :
          SearchChainStart(query, 0, MaxTs, limit)
    \/ SearchChainNext
    \/ SearchChainReturn

SpecPaging == AppendInit /\ [][PagingNext]_vars

-----------------------------------------------------------------------------
(* The tail runs: a reader polling GetLogs with after=<greatest cursor it  *)
(* has received> while entries are appended                                *)

\* the entries appended during the tail runs carry timestamps 1..MaxTs
TailEntries == {MkEntry(ts, LevelInfo, MsgFine) : ts \in 1..MaxTs}

\* ingestLogs with a timestamp in the body; storeFails is the PutItem failing
TailAppend(entry, entropy, storeFails) ==
    /\ Len(items) < MaxItems
    /\ items' = StoreLogEntryResult(items, entry, <<entropy>>,
                                    IF storeFails THEN 1 ELSE 0, now).tbl
    /\ UNCHANGED <<now, resp, chain, rules, dedup, inv, evals, sends, sessions, web, appender>>

\* the reader starts below every entry
TailStart(limit) ==
    /\ chain = NoChain
    /\ chain' = [kind |-> "tail", limit |-> limit, cursor |-> TimeToCursor(0),
                 received |-> {}, polls |-> 0]
    /\ UNCHANGED <<now, items, resp, rules, dedup, inv, evals, sends, sessions, web, appender>>

\* one poll: GetLogs(limit, afterCursor = the greatest cursor received); the
\* page is ascending, so its last cursor is its greatest
TailPoll ==
    /\ chain # NoChain
    /\ LET page == GetLogs(items, chain.limit, chain.cursor, <<>>)
       IN  chain' = [chain EXCEPT
                        !.received = @ \cup {page[k].Cursor : k \in 1..Len(page)},
                        !.cursor = IF page = <<>> THEN @ ELSE page[Len(page)].Cursor,
                        !.polls = IF page = <<>> THEN @ ELSE Min(@ + 1, MaxItems)]
    /\ UNCHANGED <<now, items, resp, rules, dedup, inv, evals, sends, sessions, web, appender>>

TailNext ==
    \/ \E entry \in TailEntries, entropy \in {0, MaxEntropy}, storeFails \in BOOLEAN :
          TailAppend(entry, entropy, storeFails)
    \/ \E limit \in {1, 2} : TailStart(limit)
    \/ TailPoll

\* the reader goes on polling: a poll that would deliver an entry is made
SpecTail == AppendInit /\ [][TailNext]_vars /\ WF_chain(TailPoll)

-----------------------------------------------------------------------------
(* The datetime runs: appends, then GET /logs/datetime (getLogsByDateTime  *)
(* of handler.go) on small tables and on the table of MaxLimit + 1 entries *)

DateTimeLimit == 100

\* getLogsByDateTime: the timestamp parameter is given or not, parses as
\* RFC3339 or not, and names the instant t; beforeFails and afterFails are
\* the two GetLogs calls failing
getLogsByDateTime(tbl, given, valid, t, beforeFails, afterFails) ==
    LET targetCursor == TimeToCursor(t)
        logsBefore == GetLogs(tbl, DateTimeLimit, <<>>, targetCursor)
        logsAfter == GetLogs(tbl, DateTimeLimit, targetCursor, <<>>)
        none == [target |-> <<>>, before |-> <<>>, after |-> <<>>, logs |-> <<>>]
    IN  IF ~given \/ ~valid THEN [status |-> 400] @@ none
        ELSE IF beforeFails \/ afterFails THEN [status |-> 500] @@ none
        ELSE [status |-> 200, target |-> targetCursor, before |-> logsBefore,
              after |-> logsAfter, logs |-> logsBefore \o logsAfter]

\* an append; the response of the request before it is gone by then
DateTimeAppend(entry, entropy) ==
    /\ Len(items) < MaxItems
    /\ items' = StoreLogEntryResult(items, entry, <<entropy>>, 0, now).tbl
    /\ resp' = NoResp
    /\ UNCHANGED <<now, chain, rules, dedup, inv, evals, sends, sessions, web, appender>>

DateTimeCall(given, valid, t, beforeFails, afterFails) ==
    /\ items # <<>>
    /\ resp' = [kind |-> "getLogsByDateTime"]
                  @@ getLogsByDateTime(items, given, valid, t, beforeFails, afterFails)
    /\ UNCHANGED <<now, items, chain, rules, dedup, inv, evals, sends, sessions, web, appender>>

\* the target instants: around the small tables, and inside the large one
\* with more than DateTimeLimit entries on either side
DateTimeTargets == 0..(MaxTs + 1) \cup {MaxLimit \div 2}

DateTimeNext ==
    \/ \E entry \in StoreEntries, entropy \in 0..MaxEntropy : DateTimeAppend(entry, entropy)
    \/ \E t \in DateTimeTargets :
          \/ DateTimeCall(TRUE, TRUE, t, FALSE, FALSE)
          \/ \E beforeFails, afterFails \in BOOLEAN :
                DateTimeCall(TRUE, TRUE, t, beforeFails, afterFails)
          \/ \E given, valid \in BOOLEAN : DateTimeCall(given, valid, t, FALSE, FALSE)

SpecDateTime == StoreInit /\ [][DateTimeNext]_vars

-----------------------------------------------------------------------------
(* The count runs: appends of messages that fit one item, several of them  *)
(* in one millisecond, and a read of the whole table                       *)

CountEntries ==
    {MkEntry(ts, LevelInfo, msg) : ts \in {0, 1}, msg \in {MsgFine, MessageOfSize(MaxMessageSize)}}

\* the items put by the StoreLogEntry calls that returned nil, in call order
CountPuts == IF resp = NoResp THEN <<>> ELSE resp.puts

\* one StoreLogEntry call; entropy is what rand.Reader gives
CountAppend(entry, entropy, failAt) ==
    /\ Len(CountPuts) < MaxItems
    /\ LET r == StoreLogEntryResult(items, entry, <<entropy>>, failAt, now)
       IN  /\ items' = r.tbl
           /\ resp' = [kind |-> "appends",
                       puts |-> IF r.err THEN CountPuts ELSE CountPuts \o r.puts]
    /\ chain' = NoChain
    /\ UNCHANGED <<now, rules, dedup, inv, evals, sends, sessions, web, appender>>

\* the whole table read at once: GetLogs with the largest limit and no
\* cursor, which holds every entry of a table of up to MaxLimit entries
CountScan ==
    /\ chain = NoChain
    /\ chain' = [kind |-> "scan", logs |-> GetLogs(items, MaxLimit, <<>>, <<>>)]
    /\ UNCHANGED <<now, items, resp, rules, dedup, inv, evals, sends, sessions, web, appender>>

CountNext ==
    \/ \E entry \in CountEntries, e \in 0..MaxEntropy, failAt \in 0..1 :
          CountAppend(entry, e, failAt)
    \/ CountScan

SpecCount == AppendInit /\ [][CountNext]_vars

-----------------------------------------------------------------------------
(* The alert engine *)

RECURSIVE TrimSpace(_)
\* strings.TrimSpace, for ASCII spaces
TrimSpace(s) ==
    IF s = <<>> THEN s
    ELSE IF Head(s) = 32 THEN TrimSpace(Tail(s))
    ELSE IF s[Len(s)] = 32 THEN TrimSpace(SubSeq(s, 1, Len(s) - 1))
    ELSE s

HasSuffix(s, c) == s # <<>> /\ s[Len(s)] = c
TrimSuffix(s) == SubSeq(s, 1, Len(s) - 1)

\* the length of the longest prefix of digits
DigitsLen(s) ==
    IF \E i \in 1..Len(s) : ~IsDigit(s[i])
    THEN (CHOOSE i \in 1..Len(s) : ~IsDigit(s[i]) /\ \A j \in 1..(i - 1) : IsDigit(s[j])) - 1
    ELSE Len(s)

RECURSIVE Atoi(_)
Atoi(s) == IF s = <<>> THEN 0 ELSE 10 * Atoi(SubSeq(s, 1, Len(s) - 1)) + (s[Len(s)] - 48)

\* fmt.Sscanf(s, "%d", &d) on d = 0: the leading digits, 0 when there are none
SscanfInt(s) == Atoi(SubSeq(s, 1, DigitsLen(s)))

\* time.ParseDuration, in ms, for durations of the form <digits><unit> with
\* unit ms, s, m or h; every other string used here is an error
ParseDuration(s) ==
    LET n == DigitsLen(s)
        count == Atoi(SubSeq(s, 1, n))
        unit == SubSeq(s, n + 1, Len(s))
    IN  IF n = 0 THEN [err |-> TRUE, d |-> 0]
        ELSE IF unit = <<109, 115>> THEN [err |-> FALSE, d |-> count]
        ELSE IF unit = <<115>> THEN [err |-> FALSE, d |-> count * 1000]
        ELSE IF unit = <<109>> THEN [err |-> FALSE, d |-> count * 60 * 1000]
        ELSE IF unit = <<104>> THEN [err |-> FALSE, d |-> count * 3600 * 1000]
        ELSE [err |-> TRUE, d |-> 0]

parseWindow(w) ==
    LET window == TrimSpace(ToLower(w))
    IN  IF HasSuffix(window, 109) THEN ParseDuration(TrimSuffix(window) \o <<109>>)
        ELSE IF HasSuffix(window, 104) THEN ParseDuration(window)
        ELSE IF HasSuffix(window, 100)
        THEN [err |-> FALSE, d |-> SscanfInt(TrimSuffix(window)) * 24 * 3600 * 1000]
        ELSE ParseDuration(window)

\* RuleID that gives every rule the identifier of the first
RuleID_First(ruleIndex) == <<114, 117, 108, 101, 45>> \o Itoa(0)

\* fmt.Sprintf("rule-%d", ruleIndex)
RuleID(ruleIndex) == <<114, 117, 108, 101, 45>> \o Itoa(ruleIndex)

NoItem == [absent |-> TRUE]
NoSend == [absent |-> TRUE]
NoEval == [absent |-> TRUE]

\* shouldSendAlert that never finds an alert inside the window
shouldSendAlert_AlwaysEligible(item, t, window) == TRUE

\* shouldSendAlert with the item GetItem returned, at instant t
shouldSendAlert(item, t, window) ==
    IF item = NoItem THEN TRUE
    ELSE LET lastAlertTime == item.lastAlertSent * 1000
         IN  ~(t - lastAlertTime < window)

\* recordAlertItem whose ttl is the window's end, without the 24 hours
recordAlertItem_NoGrace(ruleID, matchCount, window, t) ==
    [ruleID |-> ruleID,
     lastAlertSent |-> t \div 1000,
     matchCount |-> matchCount,
     ttl |-> (t + window) \div 1000]

\* the item recordAlert puts, at instant t
recordAlertItem(ruleID, matchCount, window, t) ==
    [ruleID |-> ruleID,
     lastAlertSent |-> t \div 1000,
     matchCount |-> matchCount,
     ttl |-> ((t + window) \div 1000) + 24 * 3600]

SearchLimit == 200

\* the search of processRule at instant t
RuleSearch(tbl, rule, window, t) ==
    SearchLogsWithLimit(tbl, rule.Pattern, t - window, t, SearchLimit)

PatternBoom == <<66, 79, 79, 77>>               \* "BOOM"
PatternError == <<101, 114, 114, 111, 114>>     \* "error"
EmailOps == <<111, 112, 115, 64, 120>>          \* "ops@x"
Window10m == <<32, 49, 48, 77>>                 \* " 10M"
Window5x == <<53, 120>>                         \* "5x"
WindowBad == <<97, 98, 99>>                     \* "abc"

\* the rule lists of alert-rules.json; <<>> is also what a missing or
\* unparsable file leaves
RuleConfigs ==
    { <<>>,
      << [Pattern |-> PatternError, Window |-> WindowBad, Email |-> EmailOps],
         [Pattern |-> PatternBoom, Window |-> Window10m, Email |-> EmailOps],
         [Pattern |-> PatternError, Window |-> Window5x, Email |-> EmailOps] >> }

RuleIDs == {RuleID(k) : k \in 0..2}

SlotMs == 5 * 60 * 1000
ClockOrigin == 10 * 60 * 1000
Offsets == {0, 400}

\* the clock readings of the alert runs
Instants == {ClockOrigin + k * SlotMs + o : k \in 0..MaxSlot, o \in Offsets}

SlotOf(t) == (t - ClockOrigin) \div SlotMs

RECURSIVE TableOf(_)
\* the table after appending the entries of a sequence of <<entry, entropy>>
TableOf(es) ==
    IF es = <<>> THEN <<>>
    ELSE storeSingleItem(TableOf(SubSeq(es, 1, Len(es) - 1)), es[Len(es)][1],
                         UlidString(UlidTimestamp(es[Len(es)][1].Timestamp), es[Len(es)][2]),
                         ClockOrigin)

\* the log tables of the alert runs: nothing matching; one matching entry at
\* the origin; a matching entry in every slot
AlertTables ==
    { TableOf(<< <<MkEntry(ClockOrigin, LevelInfo, MsgFine), 0>> >>),
      TableOf(<< <<MkEntry(ClockOrigin, LevelInfo, MsgBoom), 1>> >>),
      TableOf([k \in 1..(MaxSlot + 1) |->
                  <<MkEntry(ClockOrigin + (k - 1) * SlotMs, LevelError, MsgBoom), 0>>]) }

InvIds == 1..2

\* logs is the result of the search of the rule under way; ops and peers
\* are history: the calls this invocation made to the alerts table, the log
\* store and the notifier, and the invocations that ran during this one
IdleInv ==
    [pc |-> "idle", idx |-> 0, order |-> <<>>, window |-> 0, cur |-> NoEval,
     logs |-> <<>>, notified |-> FALSE, ret |-> "none", ops |-> <<>>, peers |-> {}]

Active(i) == inv[i].pc \in {"check", "search", "send", "record"}

ErrorOutcomes == {"invalid_window", "read_error", "search_error"}

\* the history entry of a notification delivered at instant t by the
\* evaluation that began at evalAt
Delivered(last, t, evalAt) ==
    [at |-> t, evalAt |-> evalAt, recorded |-> FALSE,
     prevAt |-> IF last = NoSend THEN -1 ELSE last.at,
     prevEvalAt |-> IF last = NoSend THEN -1 ELSE last.evalAt]

maxLogsInEmail == 20

\* sendAlertEmail that lists every entry
sendAlertEmail_ListAll(rule, logs, window) ==
    [to |-> rule.Email, matches |-> Len(logs), displayLogs |-> logs,
     truncated |-> FALSE, more |-> 0]

\* the message sendAlertEmail hands to SES: the number of matches of the
\* subject and the first line, the entries listed, and the number of the
\* line "... and %d more matches" when there is one
sendAlertEmail(rule, logs, window) ==
    LET truncated == Len(logs) > maxLogsInEmail
        displayLogs == IF truncated THEN SubSeq(logs, 1, maxLogsInEmail) ELSE logs
    IN  [to |-> rule.Email, matches |-> Len(logs), displayLogs |-> displayLogs,
         truncated |-> truncated,
         more |-> IF truncated THEN Len(logs) - maxLogsInEmail ELSE 0]

\* the history entry d with the message that was delivered
WithEmail(d, email) ==
    [f \in DOMAIN d \cup {"email"} |-> IF f = "email" THEN email ELSE d[f]]

\* the call processRule made last when it returns with outcome
OutcomeOp(outcome) ==
    CASE outcome \in {"read_error", "skipped"} -> "read"
      [] outcome \in {"search_error", "no_matches"} -> "search"
      [] outcome = "notify_failed" -> "notify"
      [] outcome \in {"sent", "sent_unrecorded"} -> "write"

Called(i, op) == Append(inv[i].ops, [rule |-> inv[i].idx, op |-> op])

\* the calls of invocation i once processRule returned with outcome; an
\* invalid window returns before any call
OpsAfter(i, outcome) ==
    IF outcome = "invalid_window" THEN inv[i].ops ELSE Called(i, OutcomeOp(outcome))

\* ProcessAlerts stopping at the first rule that returns an error
AfterRule_Abort(i, outcome) ==
    LET done == Append(inv[i].order, [rule |-> inv[i].idx, outcome |-> outcome])
    IN  IF outcome \in ErrorOutcomes
        THEN [IdleInv EXCEPT !.pc = "returned", !.order = done, !.ret = "err",
                             !.peers = inv[i].peers, !.ops = OpsAfter(i, outcome)]
        ELSE IF inv[i].idx + 1 < Len(rules)
        THEN [IdleInv EXCEPT !.pc = "check", !.idx = inv[i].idx + 1, !.order = done,
                             !.peers = inv[i].peers, !.ops = OpsAfter(i, outcome)]
        ELSE [IdleInv EXCEPT !.pc = "returned", !.order = done, !.ret = "nil",
                             !.peers = inv[i].peers, !.ops = OpsAfter(i, outcome)]

\* the loop of ProcessAlerts after processRule returned for rule idx: an
\* error is logged, the next rule follows, and after the last one nil is
\* returned
AfterRule(i, outcome) ==
    LET done == Append(inv[i].order, [rule |-> inv[i].idx, outcome |-> outcome])
    IN  IF inv[i].idx + 1 < Len(rules)
        THEN [IdleInv EXCEPT !.pc = "check", !.idx = inv[i].idx + 1, !.order = done,
                             !.peers = inv[i].peers, !.ops = OpsAfter(i, outcome)]
        ELSE [IdleInv EXCEPT !.pc = "returned", !.order = done, !.ret = "nil",
                             !.peers = inv[i].peers, !.ops = OpsAfter(i, outcome)]

\* processRule returned: the evaluation enters the history, with whether the
\* rule's dedup record differs from the one the evaluation began with
Finish(i, cur, outcome) ==
    /\ inv' = [inv EXCEPT ![i] = AfterRule(i, outcome)]
    /\ evals' = [evals EXCEPT ![RuleID(inv[i].idx)] =
                    [at |-> cur.at, hadState |-> cur.before # NoItem,
                     matches |-> cur.matches, outcome |-> outcome,
                     changed |-> dedup'[RuleID(inv[i].idx)] # cur.before]]

\* ProcessAlerts is invoked while no other invocation runs
ProcessAlerts(i) ==
    /\ \A j \in InvIds : ~Active(j)
    /\ inv' = [inv EXCEPT ![i] =
                  IF Len(rules) = 0
                  THEN [IdleInv EXCEPT !.pc = "returned", !.ret = "nil"]
                  ELSE [IdleInv EXCEPT !.pc = "check"]]
    /\ UNCHANGED <<now, items, resp, chain, rules, dedup, evals, sends, sessions, web, appender>>

\* CheckRule that takes a failed read of the dedup record for "no record"
CheckRule_FailOpen(i, readFails) ==
    /\ inv[i].pc = "check"
    /\ UNCHANGED <<now, items, resp, chain, rules, dedup, sends, sessions, web, appender>>
    /\ LET rule == rules[inv[i].idx + 1]
           pw == parseWindow(rule.Window)
           ruleID == RuleID(inv[i].idx)
           cur == [at |-> now,
                   before |-> dedup[ruleID],
                   matches |-> ~pw.err /\ RuleSearch(items, rule, pw.d, now) # <<>>]
       IN  IF pw.err THEN Finish(i, cur, "invalid_window")
           ELSE IF ~readFails /\ ~shouldSendAlert(dedup[ruleID], now, pw.d)
           THEN Finish(i, cur, "skipped")
           ELSE /\ inv' = [inv EXCEPT ![i].pc = "search", ![i].window = pw.d, ![i].cur = cur,
                                      ![i].ops = Called(i, "read")]
                /\ evals' = evals

\* processRule up to the eligibility check
CheckRule(i, readFails) ==
    /\ inv[i].pc = "check"
    /\ UNCHANGED <<now, items, resp, chain, rules, dedup, sends, sessions, web, appender>>
    /\ LET rule == rules[inv[i].idx + 1]
           pw == parseWindow(rule.Window)
           ruleID == RuleID(inv[i].idx)
           cur == [at |-> now,
                   before |-> dedup[ruleID],
                   matches |-> ~pw.err /\ RuleSearch(items, rule, pw.d, now) # <<>>]
       IN  IF pw.err THEN Finish(i, cur, "invalid_window")
           ELSE IF readFails THEN Finish(i, cur, "read_error")
           ELSE IF ~shouldSendAlert(dedup[ruleID], now, pw.d) THEN Finish(i, cur, "skipped")
           ELSE /\ inv' = [inv EXCEPT ![i].pc = "search", ![i].window = pw.d, ![i].cur = cur,
                                      ![i].ops = Called(i, "read")]
                /\ evals' = evals

\* SearchRule that records the alert as soon as matches are found
SearchRule_Speculative(i, searchFails) ==
    /\ inv[i].pc = "search"
    /\ UNCHANGED <<now, items, resp, chain, rules, sends, sessions, web, appender>>
    /\ LET rule == rules[inv[i].idx + 1]
           logs == RuleSearch(items, rule, inv[i].window, now)
           ruleID == RuleID(inv[i].idx)
       IN  IF searchFails
           THEN dedup' = dedup /\ Finish(i, inv[i].cur, "search_error")
           ELSE IF Len(logs) = 0
           THEN dedup' = dedup /\ Finish(i, [inv[i].cur EXCEPT !.matches = FALSE], "no_matches")
           ELSE /\ inv' = [inv EXCEPT ![i].pc = "send", ![i].cur.matches = TRUE,
                                      ![i].logs = logs, ![i].ops = Called(i, "search")]
                /\ dedup' = [dedup EXCEPT ![ruleID] =
                                recordAlertItem(ruleID, Len(logs), inv[i].window, now)]
                /\ evals' = evals

\* processRule: the log search
SearchRule(i, searchFails) ==
    /\ inv[i].pc = "search"
    /\ UNCHANGED <<now, items, resp, chain, rules, dedup, sends, sessions, web, appender>>
    /\ LET rule == rules[inv[i].idx + 1]
           logs == RuleSearch(items, rule, inv[i].window, now)
       IN  IF searchFails THEN Finish(i, inv[i].cur, "search_error")
           ELSE IF Len(logs) = 0
           THEN Finish(i, [inv[i].cur EXCEPT !.matches = FALSE], "no_matches")
           ELSE /\ inv' = [inv EXCEPT ![i].pc = "send", ![i].cur.matches = TRUE,
                                      ![i].logs = logs, ![i].ops = Called(i, "search")]
                /\ evals' = evals

\* SendRule that records the alert although the email failed
SendRule_RecordOnFailure(i, emailFails) ==
    /\ inv[i].pc = "send"
    /\ UNCHANGED <<now, items, resp, chain, rules, sessions, web, appender>>
    /\ LET ruleID == RuleID(inv[i].idx)
       IN  IF emailFails
           THEN /\ dedup' = [dedup EXCEPT ![ruleID] =
                                recordAlertItem(ruleID, Len(inv[i].logs), inv[i].window, now)]
                /\ Finish(i, inv[i].cur, "notify_failed")
                /\ sends' = sends
           ELSE /\ dedup' = dedup
                /\ inv' = [inv EXCEPT ![i].pc = "record", ![i].notified = TRUE,
                                      ![i].ops = Called(i, "notify")]
                /\ sends' = [sends EXCEPT ![ruleID] =
                                WithEmail(Delivered(@, now, inv[i].cur.at),
                                          sendAlertEmail(rules[inv[i].idx + 1], inv[i].logs,
                                                         inv[i].window))]
                /\ evals' = evals

\* SendRule that calls the notifier a second time when the first call failed
SendRule_RetryOnce(i, emailFails) ==
    /\ inv[i].pc = "send"
    /\ UNCHANGED <<now, items, resp, chain, rules, dedup, sessions, web, appender>>
    /\ IF emailFails
       THEN IF \E k \in 1..Len(inv[i].ops) :
                   inv[i].ops[k] = [rule |-> inv[i].idx, op |-> "notify"]
            THEN /\ Finish(i, inv[i].cur, "notify_failed")
                 /\ sends' = sends
            ELSE /\ inv' = [inv EXCEPT ![i].ops = Called(i, "notify")]
                 /\ UNCHANGED <<sends, evals>>
       ELSE /\ inv' = [inv EXCEPT ![i].pc = "record", ![i].notified = TRUE,
                                  ![i].ops = Called(i, "notify")]
            /\ sends' = [sends EXCEPT ![RuleID(inv[i].idx)] =
                            WithEmail(Delivered(@, now, inv[i].cur.at),
                                      sendAlertEmail(rules[inv[i].idx + 1], inv[i].logs,
                                                     inv[i].window))]
            /\ evals' = evals

\* processRule: sendAlertEmail
SendRule(i, emailFails) ==
    /\ inv[i].pc = "send"
    /\ UNCHANGED <<now, items, resp, chain, rules, dedup, sessions, web, appender>>
    /\ IF emailFails
       THEN /\ Finish(i, inv[i].cur, "notify_failed")
            /\ sends' = sends
       ELSE /\ inv' = [inv EXCEPT ![i].pc = "record", ![i].notified = TRUE,
                                      ![i].ops = Called(i, "notify")]
            /\ sends' = [sends EXCEPT ![RuleID(inv[i].idx)] =
                            WithEmail(Delivered(@, now, inv[i].cur.at),
                                      sendAlertEmail(rules[inv[i].idx + 1], inv[i].logs,
                                                     inv[i].window))]
            /\ evals' = evals

\* RecordRule whose failed write leaves a record behind
RecordRule_WriteOnFailure(i, writeFails) ==
    /\ inv[i].pc = "record"
    /\ UNCHANGED <<now, items, resp, chain, rules, sessions, web, appender>>
    /\ LET ruleID == RuleID(inv[i].idx)
       IN  /\ dedup' = [dedup EXCEPT ![ruleID] =
                            recordAlertItem(ruleID, Len(inv[i].logs), inv[i].window, now)]
           /\ IF writeFails
              THEN /\ sends' = sends
                   /\ Finish(i, inv[i].cur, "sent_unrecorded")
              ELSE /\ sends' = [sends EXCEPT ![ruleID].recorded = TRUE]
                   /\ Finish(i, inv[i].cur, "sent")

\* processRule: recordAlert after a delivered email
RecordRule(i, writeFails) ==
    /\ inv[i].pc = "record"
    /\ UNCHANGED <<now, items, resp, chain, rules, sessions, web, appender>>
    /\ LET ruleID == RuleID(inv[i].idx)
       IN  IF writeFails
           THEN /\ UNCHANGED <<dedup, sends>>
                /\ Finish(i, inv[i].cur, "sent_unrecorded")
           ELSE /\ dedup' = [dedup EXCEPT ![ruleID] =
                                recordAlertItem(ruleID, Len(inv[i].logs), inv[i].window, now)]
                /\ sends' = [sends EXCEPT ![ruleID].recorded = TRUE]
                /\ Finish(i, inv[i].cur, "sent")

\* the clock advances; an invocation under way ends within its slot
Tick(t) ==
    /\ t > now
    /\ (\E i \in InvIds : Active(i)) => SlotOf(t) = SlotOf(now)
    /\ now' = t
    /\ UNCHANGED <<items, resp, chain, rules, dedup, inv, evals, sends, sessions, web, appender>>

AlertInit ==
    /\ now = ClockOrigin
    /\ items \in AlertTables
    /\ resp = NoResp
    /\ chain = NoChain
    /\ rules \in RuleConfigs
    /\ dedup = [r \in RuleIDs |-> NoItem]
    /\ inv = [i \in InvIds |-> IdleInv]
    /\ evals = [r \in RuleIDs |-> NoEval]
    /\ sends = [r \in RuleIDs |-> NoSend]
    /\ sessions = <<>>
    /\ web = <<>>
    /\ appender = <<>>

AlertNext ==
    \/ ProcessAlerts(1)
    \/ \E f \in BOOLEAN : CheckRule(1, f)
    \/ \E f \in BOOLEAN : SearchRule(1, f)
    \/ \E f \in BOOLEAN : SendRule(1, f)
    \/ \E f \in BOOLEAN : RecordRule(1, f)
    \/ \E t \in Instants : Tick(t)

\* non-overlapping invocations
SpecAlerts == AlertInit /\ [][AlertNext]_vars

\* the next step of invocation i, whatever the call it makes returns
InvocationStep(i) ==
    \E f \in BOOLEAN : CheckRule(i, f) \/ SearchRule(i, f) \/ SendRule(i, f) \/ RecordRule(i, f)

\* the call runs: the three rules over the table with a matching entry in
\* every slot, invoked at the origin and 15 minutes later
CallsInit ==
    /\ AlertInit
    /\ Len(rules) = 3
    /\ Len(items) = MaxSlot + 1

CallsNext ==
    \/ ProcessAlerts(1)
    \/ \E f \in BOOLEAN : CheckRule(1, f)
    \/ \E f \in BOOLEAN : SearchRule(1, f)
    \/ \E f \in BOOLEAN : SendRule(1, f)
    \/ \E f \in BOOLEAN : RecordRule(1, f)
    \/ Tick(ClockOrigin + 3 * SlotMs)

\* the call runs in which every call an invocation waits for returns: a step
\* of processRule that can be taken is taken.  A step of invocation 1 is
\* enabled exactly while it is under way, so that the condition is
\* WF_vars(InvocationStep(1)) written out.
SpecCalls ==
    /\ CallsInit /\ [][CallsNext]_vars
    /\ ([]<>(~Active(1)) \/ []<><<InvocationStep(1)>>_vars)

\* invocations in which every read and write of the alerts table succeeds
AlertNextDedupOk ==
    \/ ProcessAlerts(1)
    \/ CheckRule(1, FALSE)
    \/ \E f \in BOOLEAN : SearchRule(1, f)
    \/ \E f \in BOOLEAN : SendRule(1, f)
    \/ RecordRule(1, FALSE)
    \/ \E t \in Instants : Tick(t)

SpecAlertsDedupOk == AlertInit /\ [][AlertNextDedupOk]_vars

WindowXd == <<120, 100>>                       \* "xd"
WindowD == <<100>>                            \* "d"
WindowXm == <<120, 109>>                       \* "xm"

\* rules whose window is not a count followed by a unit, among them windows
\* that end in the unit letter d, and a matching entry in every slot
WindowInit ==
    /\ now = ClockOrigin
    /\ items = TableOf([k \in 1..(MaxSlot + 1) |->
                          <<MkEntry(ClockOrigin + (k - 1) * SlotMs, LevelError, MsgBoom), 0>>])
    /\ resp = NoResp
    /\ chain = NoChain
    /\ rules \in { << [Pattern |-> PatternBoom, Window |-> WindowXd, Email |-> EmailOps],
                      [Pattern |-> PatternBoom, Window |-> Window5x, Email |-> EmailOps] >>,
                   << [Pattern |-> PatternBoom, Window |-> WindowXm, Email |-> EmailOps],
                      [Pattern |-> PatternBoom, Window |-> WindowD, Email |-> EmailOps] >> }
    /\ dedup = [r \in RuleIDs |-> NoItem]
    /\ inv = [i \in InvIds |-> IdleInv]
    /\ evals = [r \in RuleIDs |-> NoEval]
    /\ sends = [r \in RuleIDs |-> NoSend]
    /\ sessions = <<>>
    /\ web = <<>>
    /\ appender = <<>>

SpecWindows == WindowInit /\ [][AlertNext]_vars

\* ProcessAlerts is invoked, whether or not another invocation runs; each of
\* the invocations of InvIds is followed once
ProcessAlertsOverlapping(i) ==
    /\ inv[i].pc = "idle"
    /\ inv' = [j \in InvIds |->
                  IF j = i
                  THEN [IdleInv EXCEPT
                           !.pc = IF Len(rules) = 0 THEN "returned" ELSE "check",
                           !.ret = IF Len(rules) = 0 THEN "nil" ELSE "none",
                           !.peers = {k \in InvIds \ {i} : Active(k)}]
                  ELSE IF Active(j) THEN [inv[j] EXCEPT !.peers = @ \cup {i}]
                  ELSE inv[j]]
    /\ UNCHANGED <<now, items, resp, chain, rules, dedup, evals, sends, sessions, web, appender>>

\* one rule with window 10m and a matching entry in every slot
OverlapInit ==
    /\ now = ClockOrigin
    /\ items = TableOf([k \in 1..(MaxSlot + 1) |->
                          <<MkEntry(ClockOrigin + (k - 1) * SlotMs, LevelError, MsgBoom), 0>>])
    /\ resp = NoResp
    /\ chain = NoChain
    /\ rules = << [Pattern |-> PatternBoom, Window |-> Window10m, Email |-> EmailOps] >>
    /\ dedup = [r \in RuleIDs |-> NoItem]
    /\ inv = [i \in InvIds |-> IdleInv]
    /\ evals = [r \in RuleIDs |-> NoEval]
    /\ sends = [r \in RuleIDs |-> NoSend]
    /\ sessions = <<>>
    /\ web = <<>>
    /\ appender = <<>>

\* invocations that may overlap, with every read and write of the alerts
\* table succeeding
OverlapNext ==
    \/ \E i \in InvIds : ProcessAlertsOverlapping(i)
    \/ \E i \in InvIds : CheckRule(i, FALSE)
    \/ \E i \in InvIds, f \in BOOLEAN : SearchRule(i, f)
    \/ \E i \in InvIds, f \in BOOLEAN : SendRule(i, f)
    \/ \E i \in InvIds : RecordRule(i, FALSE)
    \/ \E t \in Instants : Tick(t)

SpecOverlap == OverlapInit /\ [][OverlapNext]_vars

Window5m == <<53, 109>>                        \* "5m"

\* the frame runs: two rules with well-formed windows that both match the
\* entry of every slot
FrameInit ==
    /\ now = ClockOrigin
    /\ items = TableOf([k \in 1..(MaxSlot + 1) |->
                          <<MkEntry(ClockOrigin + (k - 1) * SlotMs, LevelError, MsgBoom), 0>>])
    /\ resp = NoResp
    /\ chain = NoChain
    /\ rules = << [Pattern |-> PatternBoom, Window |-> Window10m, Email |-> EmailOps],
                  [Pattern |-> PatternError, Window |-> Window5m, Email |-> EmailOps] >>
    /\ dedup = [r \in RuleIDs |-> NoItem]
    /\ inv = [i \in InvIds |-> IdleInv]
    /\ evals = [r \in RuleIDs |-> NoEval]
    /\ sends = [r \in RuleIDs |-> NoSend]
    /\ sessions = <<>>
    /\ web = <<>>
    /\ appender = <<>>

\* one invocation after the other, with every call failing or not; the clock
\* reaches the next slot and the last
FrameNext ==
    \/ ProcessAlerts(1)
    \/ \E f \in BOOLEAN : CheckRule(1, f)
    \/ \E f \in BOOLEAN : SearchRule(1, f)
    \/ \E f \in BOOLEAN : SendRule(1, f)
    \/ \E f \in BOOLEAN : RecordRule(1, f)
    \/ \E k \in {1, MaxSlot} : Tick(ClockOrigin + k * SlotMs)

SpecFrame == FrameInit /\ [][FrameNext]_vars

\* a log table of n entries, one per millisecond after the clock's origin,
\* of which every fifth does not match
DigestTable(n) ==
    [k \in 1..n |->
        storeSingleItem(<<>>,
                        IF k % 5 = 0 THEN MkEntry(ClockOrigin + k, LevelInfo, MsgFine)
                        ELSE MkEntry(ClockOrigin + k, LevelError, MsgBoom),
                        UlidString(ClockOrigin + k, 0), ClockOrigin)[1]]

\* tables with 1, 20, 21, 200, 201 and 208 matching entries
DigestSizes == {1, 24, 26, 249, 251, 259}

\* the digest runs: one rule with window 10m over a large table
DigestInit ==
    /\ now = ClockOrigin
    /\ items \in {DigestTable(n) : n \in DigestSizes}
    /\ resp = NoResp
    /\ chain = NoChain
    /\ rules = << [Pattern |-> PatternBoom, Window |-> Window10m, Email |-> EmailOps] >>
    /\ dedup = [r \in RuleIDs |-> NoItem]
    /\ inv = [i \in InvIds |-> IdleInv]
    /\ evals = [r \in RuleIDs |-> NoEval]
    /\ sends = [r \in RuleIDs |-> NoSend]
    /\ sessions = <<>>
    /\ web = <<>>
    /\ appender = <<>>

\* one invocation after the other, with reads of the alerts table and
\* searches that succeed; the clock reaches the entries' instants and the
\* two slots that follow
DigestNext ==
    \/ ProcessAlerts(1)
    \/ CheckRule(1, FALSE)
    \/ SearchRule(1, FALSE)
    \/ \E f \in BOOLEAN : SendRule(1, f)
    \/ \E f \in BOOLEAN : RecordRule(1, f)
    \/ \E t \in {ClockOrigin + 400, ClockOrigin + SlotMs, ClockOrigin + 2 * SlotMs} : Tick(t)

SpecDigest == DigestInit /\ [][DigestNext]_vars

-----------------------------------------------------------------------------
(* The HTTP handler (lambda/internal/handler/handler.go) and the session   *)
(* store (src/unnamed/part_002)                                            *)

SessionTTLDays == 14

\* SessionTTLDays * 24 * time.Hour, in seconds
SessionTTL == SessionTTLDays * 24 * 3600

RECURSIVE SplitOn(_, _)
\* strings.Split(s, sep) for a separator of one byte
SplitOn(s, sep) ==
    IF \E i \in 1..Len(s) : s[i] = sep
    THEN LET i == CHOOSE k \in 1..Len(s) : s[k] = sep /\ \A j \in 1..(k - 1) : s[j] # sep
         IN  <<SubSeq(s, 1, i - 1)>> \o SplitOn(SubSeq(s, i + 1, Len(s)), sep)
    ELSE <<s>>

HasPrefix(s, prefix) == Len(s) >= Len(prefix) /\ SubSeq(s, 1, Len(prefix)) = prefix

SessionPrefix == <<115, 101, 115, 115, 105, 111, 110, 61>>            \* "session="
BearerPrefix == <<66, 101, 97, 114, 101, 114, 32>>         \* "Bearer "

\* the configuration of NewHandler
uiPassword == <<112, 119>>              \* "pw"
ingestSecret == <<107, 101, 121>>            \* "key"

\* getSessionFromCookie: the value of the first cookie named session
getSessionFromCookie(headers) ==
    LET cookieHeader == IF headers.cookie # <<>> THEN headers.cookie ELSE headers.Cookie
        cookies == SplitOn(cookieHeader, 59)
        named == {k \in 1..Len(cookies) : HasPrefix(TrimSpace(cookies[k]), SessionPrefix)}
    IN  IF named = {} THEN <<>>
        ELSE LET first == CHOOSE k \in named : \A j \in named : k <= j
             IN  SubSeq(TrimSpace(cookies[first]), Len(SessionPrefix) + 1,
                        Len(TrimSpace(cookies[first])))

\* the stored session with the given id, or NoItem
GetSession(tbl, sessionID) ==
    IF \E x \in tbl : x.session_id = sessionID
    THEN CHOOSE x \in tbl : x.session_id = sessionID
    ELSE NoItem

\* CreateSession: the record put at instant t; expire_at is
\* now.Add(SessionTTL).Unix(), the whole seconds of t plus a whole number of
\* seconds
Session(sessionID, userAgent, t) ==
    [session_id |-> sessionID, created_at |-> t,
     expire_at |-> (t \div 1000) + SessionTTL, user_agent |-> userAgent]

\* ValidateSession at instant t; getFails is GetItem returning an error
ValidateSession(tbl, sessionID, t, getFails) ==
    IF getFails THEN [valid |-> FALSE, err |-> TRUE]
    ELSE IF GetSession(tbl, sessionID) = NoItem THEN [valid |-> FALSE, err |-> FALSE]
    ELSE IF GetSession(tbl, sessionID).expire_at < t \div 1000 THEN [valid |-> FALSE, err |-> FALSE]
    ELSE [valid |-> TRUE, err |-> FALSE]

\* DeleteSession
DeleteSession(tbl, sessionID) == {x \in tbl : x.session_id # sessionID}

\* the switch of Handle
Route(method, path) ==
    CASE method = "GET" /\ path = "/login" -> "serveLoginPage"
      [] method = "POST" /\ path = "/auth/login" -> "handleLogin"
      [] method = "POST" /\ path = "/logs/ingest" -> "ingestLogs"
      [] method = "GET" /\ path = "/" -> "serveIndex"
      [] method = "POST" /\ path = "/auth/logout" -> "handleLogout"
      [] method = "GET" /\ path = "/logs/latest" -> "getLatestLogs"
      [] method = "GET" /\ path = "/logs" -> "getLogs"
      [] method = "GET" /\ path = "/logs/date" -> "getLogsByDate"
      [] method = "GET" /\ path = "/logs/datetime" -> "getLogsByDateTime"
      [] method = "GET" /\ path = "/logs/search" -> "searchLogs"
      [] OTHER -> "notFound"

ProtectedHandlers ==
    {"serveIndex", "handleLogout", "getLatestLogs", "getLogs", "getLogsByDate",
     "getLogsByDateTime", "searchLogs"}

\* the protected handlers that read the log store
LogReaders == ProtectedHandlers \ {"serveIndex", "handleLogout"}

NoHeaders == [cookie |-> <<>>, Cookie |-> <<>>, authorization |-> <<>>, Authorization |-> <<>>]

SessionIds == {<<115, 49>>, <<115, 50>>}            \* "s1", "s2"

\* request headers: no cookie, a session alone, a session after another
\* cookie under the capitalised header name, an id that no login issued, a
\* cookie whose name only ends in session
CookieInputs ==
    {NoHeaders,
     [NoHeaders EXCEPT !.cookie = SessionPrefix \o <<115, 49>>],
     [NoHeaders EXCEPT !.Cookie = <<116, 104, 101, 109, 101, 61, 100, 97, 114, 107, 59, 32>> \o SessionPrefix \o <<115, 50>>],
     [NoHeaders EXCEPT !.cookie = SessionPrefix \o <<115, 57>>],
     [NoHeaders EXCEPT !.cookie = <<120, 115, 101, 115, 115, 105, 111, 110, 61>> \o <<115, 49>>]}

\* login requests: the password, whether the body fails to parse
LoginInputs ==
    {<<uiPassword, FALSE>>, <<uiPassword, TRUE>>, <<<<80, 87>>, FALSE>>, <<<<>>, FALSE>>}

\* ingest requests: the headers, whether the body fails to parse
IngestInputs ==
    {<<NoHeaders, FALSE>>,
     <<[NoHeaders EXCEPT !.authorization = BearerPrefix \o ingestSecret], FALSE>>,
     <<[NoHeaders EXCEPT !.Authorization = BearerPrefix \o ingestSecret], FALSE>>,
     <<[NoHeaders EXCEPT !.authorization = BearerPrefix \o ingestSecret], TRUE>>,
     <<[NoHeaders EXCEPT !.authorization = ingestSecret], FALSE>>,
     <<[NoHeaders EXCEPT !.authorization = BearerPrefix \o ingestSecret \o <<32>>], FALSE>>,
     <<[NoHeaders EXCEPT !.Authorization = BearerPrefix], TRUE>>,
     <<[NoHeaders EXCEPT !.authorization = ToLower(BearerPrefix) \o ingestSecret], FALSE>>}

IngestEntries == {MkEntry(-1, <<>>, MsgFine), MkEntry(1, LevelError, MsgBoom)}

WebRequests ==
    {<<"GET", "/">>, <<"POST", "/auth/logout">>, <<"GET", "/logs/latest">>, <<"GET", "/logs">>,
     <<"GET", "/logs/date">>, <<"GET", "/logs/datetime">>, <<"GET", "/logs/search">>}

WebInstants == {0, SessionTTL * 1000 + 400, SessionTTL * 1000 + 1000}

NoRequest == [kind |-> "none"]

\* POST /auth/login; sessionID is the identifier uuid.New() returns, never one
\* it returned before
HandleLogin(password, badJSON, sessionID, putFails) ==
    /\ Route("POST", "/auth/login") = "handleLogin"
    /\ sessionID \notin web.issued
    /\ LET status == IF badJSON THEN 400
                     ELSE IF password # uiPassword THEN 401
                     ELSE IF putFails THEN 500
                     ELSE 200
       IN  /\ sessions' = IF status = 200
                          THEN DeleteSession(sessions, sessionID)
                                   \cup {Session(sessionID, <<>>, now)}
                          ELSE sessions
           /\ web' = [web EXCEPT
                         !.issued = IF status = 200 THEN @ \cup {sessionID} ELSE @,
                         !.last = [kind |-> "login", status |-> status,
                                   password |-> password,
                                   cookie |-> IF status = 200 THEN sessionID ELSE <<>>]]
    /\ UNCHANGED <<now, items, resp, chain, rules, dedup, inv, evals, sends, appender>>

\* a request to a protected route: requireAuth, then the handler.  The
\* history notes, as of the arrival of the request, whether the session id
\* it carries was issued by a login, was logged out, and is past its expiry.
HandleProtected(request, headers, getFails, deleteFails) ==
    /\ Route(request[1], request[2]) \in ProtectedHandlers
    /\ \E sessionID \in {getSessionFromCookie(headers)} :
       LET handler == Route(request[1], request[2])
           v == IF sessionID = <<>> THEN [valid |-> FALSE, err |-> FALSE]
                ELSE ValidateSession(sessions, sessionID, now, getFails)
           reached == ~v.err /\ v.valid
           stored == GetSession(sessions, sessionID)
       IN  /\ sessions' = IF reached /\ handler = "handleLogout" /\ ~deleteFails
                          THEN DeleteSession(sessions, sessionID)
                          ELSE sessions
           /\ web' = [web EXCEPT
                         !.loggedOut = IF reached /\ handler = "handleLogout"
                                       THEN @ \cup {sessionID} ELSE @,
                         !.last = [kind |-> "protected", handler |-> handler,
                                   sessionID |-> sessionID,
                                   status |-> IF reached THEN 200 ELSE 302,
                                   reached |-> reached,
                                   storeRead |-> reached /\ handler \in LogReaders,
                                   wasIssued |-> sessionID \in web.issued,
                                   wasLoggedOut |-> sessionID \in web.loggedOut,
                                   wasExpired |-> stored # NoItem
                                                  /\ stored.expire_at < now \div 1000]]
    /\ UNCHANGED <<now, items, resp, chain, rules, dedup, inv, evals, sends, appender>>

expectedAuth == BearerPrefix \o ingestSecret

IngestAuthorized_AnyBearer(authHeader) == HasPrefix(authHeader, BearerPrefix)

\* the comparison of ingestLogs
IngestAuthorized(authHeader) == authHeader = expectedAuth

\* POST /logs/ingest; a request without timestamp has Timestamp -1 (the zero
\* time.Time)
ingestLogs(headers, badJSON, entry, entropy, storeFails) ==
    /\ Route("POST", "/logs/ingest") = "ingestLogs"
    /\ Len(items) < MaxItems
    /\ LET authHeader == IF headers.authorization # <<>> THEN headers.authorization
                         ELSE headers.Authorization
           stamped == [entry EXCEPT
                          !.Timestamp = IF @ = -1 THEN now ELSE @,
                          !.Level = IF @ = <<>> THEN LevelInfo ELSE @]
           r == StoreLogEntryResult(items, stamped, <<entropy>>,
                                    IF storeFails THEN 1 ELSE 0, now)
           status == IF ~IngestAuthorized(authHeader) THEN 401
                     ELSE IF badJSON THEN 400
                     ELSE IF r.err THEN 500
                     ELSE 200
       IN  /\ items' = IF status \in {200, 500} THEN r.tbl ELSE items
           /\ web' = [web EXCEPT
                         !.last = [kind |-> "ingest", authorization |-> authHeader,
                                   status |-> status]]
    /\ UNCHANGED <<now, resp, chain, rules, dedup, inv, evals, sends, sessions, appender>>

\* the clock advances
WebTick(t) ==
    /\ t > now
    /\ now' = t
    /\ UNCHANGED <<items, resp, chain, rules, dedup, inv, evals, sends, sessions, web, appender>>

WebInit ==
    /\ now = 0
    /\ items = <<>>
    /\ resp = NoResp
    /\ chain = NoChain
    /\ rules = <<>>
    /\ dedup = <<>>
    /\ inv = <<>>
    /\ evals = <<>>
    /\ sends = <<>>
    /\ sessions = {}
    /\ web = [issued |-> {}, loggedOut |-> {}, last |-> NoRequest]
    /\ appender = <<>>

WebNext ==
    \/ \E login \in LoginInputs, sessionID \in SessionIds, putFails \in BOOLEAN :
          HandleLogin(login[1], login[2], sessionID, putFails)
    \/ \E request \in WebRequests, headers \in CookieInputs,
          fault \in {"none", "GetItem", "DeleteItem"} :
          HandleProtected(request, headers, fault = "GetItem", fault = "DeleteItem")
    \/ \E t \in WebInstants : WebTick(t)

SpecWeb == WebInit /\ [][WebNext]_vars

IngestNext ==
    \/ \E request \in IngestInputs, entry \in IngestEntries, storeFails \in BOOLEAN :
          ingestLogs(request[1], request[2], entry, 0, storeFails)
    \/ \E t \in WebInstants : WebTick(t)

SpecIngest == WebInit /\ [][IngestNext]_vars

-----------------------------------------------------------------------------
(* The logback appender (TinyTailAppender.java): sendLogWithRetry *)

MaxRetriesBound == 2

retryDelayMs == 200

StatusPrefix == <<84, 105, 110, 121, 84, 97, 105, 108, 32, 114, 101, 116, 117, 114, 110, 101, 100, 32, 115, 116, 97, 116, 117, 115, 32>>     \* "TinyTail returned status "

\* the IOException of sendLog for a response code outside 200..299
StatusException(responseCode) == [null |-> FALSE, text |-> StatusPrefix \o Itoa(responseCode)]

\* exceptions of the connection itself: one without message, one with
NetworkExceptions ==
    {[null |-> TRUE, text |-> <<>>],
     [null |-> FALSE, text |-> <<67, 111, 110, 110, 101, 99, 116, 105, 111, 110, 32, 114, 101, 102, 117, 115, 101, 100>>]}          \* "Connection refused"

ResponseCodes == {200, 204, 302, 400, 401, 403, 404, 429, 500, 503}

isRetryable_Always(e) == TRUE

isRetryable(e) ==
    IF e.null THEN TRUE
    ELSE IF \/ Contains(e.text, <<115, 116, 97, 116, 117, 115, 32, 52, 48, 49>>) \/ Contains(e.text, <<115, 116, 97, 116, 117, 115, 32, 52, 48, 51>>)
            \/ Contains(e.text, <<115, 116, 97, 116, 117, 115, 32, 52, 48, 48>>) \/ Contains(e.text, <<115, 116, 97, 116, 117, 115, 32, 52, 48, 52>>)
         THEN FALSE
         ELSE TRUE

\* sendLog: no exception exactly for a response code in 200..299
sendLog(outcome) ==
    IF outcome.kind = "network" THEN [thrown |-> TRUE, e |-> outcome.e]
    ELSE IF outcome.code < 200 \/ outcome.code >= 300
         THEN [thrown |-> TRUE, e |-> StatusException(outcome.code)]
         ELSE [thrown |-> FALSE, e |-> [null |-> TRUE, text |-> <<>>]]

SendOutcomes ==
    {[kind |-> "response", code |-> c] : c \in ResponseCodes}
        \cup {[kind |-> "network", e |-> e] : e \in NetworkExceptions}

\* append(event) submits sendLogWithRetry: the loop starts with attempt 0; a
\* loop that never runs ends in throw lastException
append ==
    /\ appender.pc \in {"idle", "returned", "thrown"}
    /\ appender' = [appender EXCEPT
                       !.attempt = 0,
                       !.log = <<>>,
                       !.pc = IF 0 <= appender.maxRetries THEN "sendLog" ELSE "thrown"]
    /\ UNCHANGED <<now, items, resp, chain, rules, dedup, inv, evals, sends, sessions, web>>

\* one pass of the loop body up to the wait: sendLog and the catch block
SendAttempt(outcome) ==
    /\ appender.pc = "sendLog"
    /\ LET r == sendLog(outcome)
           entry == [op |-> "sendLog", outcome |-> outcome]
       IN  appender' = [appender EXCEPT
               !.log = Append(@, entry),
               !.attempt = IF r.thrown /\ appender.attempt >= appender.maxRetries
                           THEN @ + 1 ELSE @,
               !.pc = IF ~r.thrown THEN "returned"
                      ELSE IF appender.attempt < appender.maxRetries
                           THEN IF isRetryable(r.e) THEN "sleep" ELSE "thrown"
                           ELSE "thrown"]
    /\ UNCHANGED <<now, items, resp, chain, rules, dedup, inv, evals, sends, sessions, web>>

\* Thread.sleep(retryDelayMs), then the next pass; an interrupt during the wait
\* ends the call with "Retry interrupted"
Sleep(interrupted) ==
    /\ appender.pc = "sleep"
    /\ appender' = [appender EXCEPT
                       !.log = Append(@, [op |-> "sleep", ms |-> retryDelayMs,
                                          interrupted |-> interrupted]),
                       !.attempt = IF interrupted THEN @ ELSE @ + 1,
                       !.pc = IF interrupted THEN "thrown" ELSE "sendLog"]
    /\ UNCHANGED <<now, items, resp, chain, rules, dedup, inv, evals, sends, sessions, web>>

\* the appender as configured: maxRetries is set from the logback
\* configuration (setMaxRetries), 1 when absent
AppenderInit ==
    /\ now = 0
    /\ items = <<>>
    /\ resp = NoResp
    /\ chain = NoChain
    /\ rules = <<>>
    /\ dedup = <<>>
    /\ inv = <<>>
    /\ evals = <<>>
    /\ sends = <<>>
    /\ sessions = <<>>
    /\ web = <<>>
    /\ appender \in {[maxRetries |-> k, attempt |-> 0, log |-> <<>>, pc |-> "idle"] :
                        k \in (-1)..MaxRetriesBound}

AppenderNext ==
    \/ append
    \/ \E outcome \in SendOutcomes : SendAttempt(outcome)
    \/ \E interrupted \in BOOLEAN : Sleep(interrupted)

SpecAppender == AppenderInit /\ [][AppenderNext]_vars

-----------------------------------------------------------------------------
(* The logback appender (TinyTailAppender.java): start, stop, append and   *)
(* the tasks of its thread pool.  Events are numbered in the order of the  *)
(* append calls.                                                           *)

MaxEvents == 2
MaxStarts == 2

DefaultMaxRetries == 1
PoolSize == 2

\* a String field that was never set
NullString == <<0>>

IsBlank(str) == str = NullString \/ TrimSpace(str) = <<>>

\* values of the endpoint and secret properties of the configuration
ConfigStrings == {<<32>>, <<104, 116, 116, 112, 115, 58, 47, 47, 120>>}

NoTask == [st |-> "none", gen |-> 0, attempt |-> 0, interrupted |-> FALSE, during |-> "none"]

\* where the appender is in its life: before the first successful start(),
\* between a successful start() and the call of stop(), inside stop(), or
\* after stop() returned
Phase(a) ==
    IF a.started THEN "started"
    ELSE IF a.stopping THEN "stopping"
    ELSE IF a.gen = 0 THEN "new" ELSE "stopped"

\* the tasks that occupy a thread of pool g
Running(a, g) == {e \in 1..MaxEvents : a.task[e].gen = g /\ a.task[e].st \in {"sending", "sleeping"}}

LifeRest == <<now, items, resp, chain, rules, dedup, inv, evals, sends, sessions, web>>

\* the setters, called by the configuration before the appender is started
setEndpoint(str) ==
    /\ appender.gen = 0
    /\ appender' = [appender EXCEPT !.endpoint = str]
    /\ UNCHANGED LifeRest

setSecret(str) ==
    /\ appender.gen = 0
    /\ appender' = [appender EXCEPT !.secret = str]
    /\ UNCHANGED LifeRest

\* start(), called on an appender that is not started
start ==
    /\ ~appender.started /\ ~appender.stopping
    /\ appender.gen < MaxStarts
    /\ appender' =
          IF IsBlank(appender.endpoint)
          THEN [appender EXCEPT !.errors = @ \cup {"Endpoint is required for TinyTailAppender"}]
          ELSE IF IsBlank(appender.secret)
          THEN [appender EXCEPT !.errors = @ \cup {"Secret is required for TinyTailAppender"}]
          ELSE [appender EXCEPT !.executor = "live", !.gen = @ + 1, !.queue = <<>>,
                                !.started = TRUE]
    /\ UNCHANGED LifeRest

\* stop() that leaves the pool as it is
stopShutdown_KeepPool ==
    /\ appender.started
    /\ appender' = [appender EXCEPT !.started = FALSE, !.stopping = TRUE]
    /\ UNCHANGED LifeRest

\* stop() up to executor.shutdown(): nothing more is accepted, the tasks
\* submitted before go on
stopShutdown ==
    /\ appender.started
    /\ appender' = [appender EXCEPT !.started = FALSE, !.executor = "shutdown",
                                    !.stopping = TRUE]
    /\ UNCHANGED LifeRest

\* the rest of stop(): awaitTermination returns true once no task is left;
\* after 10 seconds, or when the stopping thread is interrupted,
\* shutdownNow() discards the tasks that wait and interrupts the threads
stopAwait(force) ==
    /\ appender.stopping
    /\ IF force
       THEN appender' =
               [appender EXCEPT
                   !.stopping = FALSE,
                   !.queue = <<>>,
                   !.task = [e \in 1..MaxEvents |->
                               IF @[e].st = "queued" THEN [@[e] EXCEPT !.st = "discarded"]
                               ELSE IF e \in Running(appender, appender.gen)
                               THEN [@[e] EXCEPT !.interrupted = TRUE]
                               ELSE @[e]]]
       ELSE /\ appender.queue = <<>>
            /\ Running(appender, appender.gen) = {}
            /\ appender' = [appender EXCEPT !.stopping = FALSE]
    /\ UNCHANGED LifeRest

\* append(event) up to the test of the executor; the field is read without
\* synchronisation, so that the thread may still see the value from before
\* the last start()
appendCheck(stale) ==
    /\ appender.caller = 0
    /\ appender.next <= MaxEvents
    /\ LET e == appender.next
           seen == IF stale /\ appender.executor = "live"
                   THEN (IF appender.gen = 1 THEN "null" ELSE "shutdown")
                   ELSE appender.executor
       IN  appender' =
              IF seen = "null" \/ seen = "shutdown"
              THEN [appender EXCEPT !.next = e + 1,
                                    !.task[e] = [NoTask EXCEPT !.st = "dropped",
                                                               !.during = Phase(appender)]]
              ELSE [appender EXCEPT !.next = e + 1, !.caller = e,
                                    !.task[e] = [NoTask EXCEPT !.during = Phase(appender)]]
    /\ UNCHANGED LifeRest

\* executor.submit: a pool shut down in the meantime rejects the task, and
\* append throws RejectedExecutionException
appendSubmit ==
    /\ appender.caller # 0
    /\ LET e == appender.caller
       IN  appender' =
              IF appender.executor = "live"
              THEN [appender EXCEPT !.caller = 0, !.queue = Append(@, e),
                                    !.task[e].st = "queued", !.task[e].gen = appender.gen]
              ELSE [appender EXCEPT !.caller = 0, !.task[e].st = "rejected",
                                    !.thrown = @ \cup {e}]
    /\ UNCHANGED LifeRest

\* a free thread of the pool takes the next task
workerTake ==
    /\ appender.queue # <<>>
    /\ Cardinality(Running(appender, appender.gen)) < PoolSize
    /\ appender' = [appender EXCEPT !.queue = Tail(@),
                                    !.task[Head(appender.queue)].st = "sending"]
    /\ UNCHANGED LifeRest

\* the task of event e: one pass of the loop of sendLogWithRetry up to the
\* wait, and the catch block of the task when the call throws
workerSend(e, outcome) ==
    /\ appender.task[e].st = "sending"
    /\ LET t == appender.task[e]
           r == sendLog(outcome)
           made == [event |-> e, attempt |-> t.attempt, phase |-> Phase(appender)]
           fails == \/ t.attempt >= DefaultMaxRetries
                    \/ ~isRetryable(r.e)
                    \/ t.interrupted
       IN  appender' =
              IF ~r.thrown
              THEN [appender EXCEPT !.attempts = @ \cup {made}, !.task[e].st = "sent"]
              ELSE IF fails
              THEN [appender EXCEPT !.attempts = @ \cup {made}, !.task[e].st = "failed",
                                    !.failed = @ \cup {e}]
              ELSE [appender EXCEPT !.attempts = @ \cup {made}, !.task[e].st = "sleeping"]
    /\ UNCHANGED LifeRest

\* Thread.sleep(retryDelayMs) ends: the next pass, or "Retry interrupted"
workerWake(e) ==
    /\ appender.task[e].st = "sleeping"
    /\ appender' =
          IF appender.task[e].interrupted
          THEN [appender EXCEPT !.task[e].st = "failed", !.failed = @ \cup {e}]
          ELSE [appender EXCEPT !.task[e].st = "sending", !.task[e].attempt = @ + 1]
    /\ UNCHANGED LifeRest

\* the appender as constructed
LifeInit ==
    /\ now = 0
    /\ items = <<>>
    /\ resp = NoResp
    /\ chain = NoChain
    /\ rules = <<>>
    /\ dedup = <<>>
    /\ inv = <<>>
    /\ evals = <<>>
    /\ sends = <<>>
    /\ sessions = <<>>
    /\ web = <<>>
    /\ appender = [endpoint |-> NullString, secret |-> NullString, started |-> FALSE,
                   stopping |-> FALSE, executor |-> "null", gen |-> 0, caller |-> 0,
                   next |-> 1, queue |-> <<>>, task |-> [e \in 1..MaxEvents |-> NoTask],
                   attempts |-> {}, errors |-> {}, failed |-> {}, thrown |-> {}]

\* the answers of the server to the tasks: accepted, refused, unavailable,
\* and no connection
LifeOutcomes ==
    {[kind |-> "response", code |-> c] : c \in {200, 401, 503}}
        \cup {[kind |-> "network", e |-> [null |-> TRUE, text |-> <<>>]]}

LifeNext ==
    \/ \E str \in ConfigStrings : setEndpoint(str)
    \/ \E str \in ConfigStrings : setSecret(str)
    \/ start
    \/ stopShutdown
    \/ \E force \in BOOLEAN : stopAwait(force)
    \/ \E stale \in BOOLEAN : appendCheck(stale)
    \/ appendSubmit
    \/ workerTake
    \/ \E e \in 1..MaxEvents, outcome \in LifeOutcomes : workerSend(e, outcome)
    \/ \E e \in 1..MaxEvents : workerWake(e)

SpecLife == LifeInit /\ [][LifeNext]_vars

-----------------------------------------------------------------------------
(* Properties of the cursor reads *)

\* every stored entry as a reader sees it, in ascending sort-key order
AllEntries == unmarshalAndReassemble(items)

EntriesAbove(c) == SelectSeq(AllEntries, LAMBDA e : StrLess(c, e.Cursor))
EntriesBelow(c) == SelectSeq(AllEntries, LAMBDA e : StrLess(e.Cursor, c))

LastN(s, n) == IF Len(s) > n THEN SubSeq(s, Len(s) - n + 1, Len(s)) ELSE s

Answered == resp.kind = "GetLogs" /\ ~resp.err

\* C6: GetLogs with afterCursor = c returns only entries whose cursor is
\* strictly greater than c, and GetLogs with beforeCursor = c (alone) only
\* entries whose cursor is strictly less than c; never the entry at c itself.
C6_CursorExclusive ==
    Answered =>
        /\ resp.after # <<>> =>
              \A i \in 1..Len(resp.logs) : StrLess(resp.after, resp.logs[i].Cursor)
        /\ (resp.after = <<>> /\ resp.before # <<>>) =>
              \A i \in 1..Len(resp.logs) : StrLess(resp.logs[i].Cursor, resp.before)

\* an answered afterCursor read at the cursor of a stored entry that has
\* entries behind it
C6_Witness ==
    /\ Answered
    /\ resp.after # <<>>
    /\ \E i \in 1..Len(AllEntries) : AllEntries[i].Cursor = resp.after
    /\ Len(resp.logs) > 0

\* C7: a finished chain of afterCursor pages has collected every stored
\* entry with cursor greater than the initial cursor, once each, in ascending
\* cursor order: the sequence one unbounded ascending scan yields.
C7_ChainCoversScan ==
    (chain.kind = "chain" /\ chain.done) => chain.acc = EntriesAbove(chain.start)

\* a finished chain of at least two non-empty pages
C7_Witness ==
    /\ chain.kind = "chain"
    /\ chain.done
    /\ chain.pages >= 2
    /\ Len(chain.acc) >= 3

\* C8: GetLogs(limit = N, beforeCursor = X), N >= 1, returns the min(N, k)
\* entries with the greatest cursors below X, in ascending cursor order
\* (N above MaxLimit counts as MaxLimit).
C8_BeforeReturnsNearest ==
    (Answered /\ resp.after = <<>> /\ resp.before # <<>> /\ resp.limit >= 1) =>
        resp.logs = LastN(EntriesBelow(resp.before), Min(resp.limit, MaxLimit))

\* five or more entries before X, N = 2, two entries returned
C8_Witness ==
    /\ Answered
    /\ resp.after = <<>>
    /\ resp.before # <<>>
    /\ resp.limit = 2
    /\ Len(EntriesBelow(resp.before)) >= 5
    /\ Len(resp.logs) = 2

\* C9: GetLogs with neither cursor, limit >= 1, returns the limit entries
\* with the greatest cursors (all of them when fewer are stored), most recent
\* first.
C9_LatestDescending ==
    (Answered /\ resp.after = <<>> /\ resp.before = <<>> /\ resp.limit >= 1) =>
        resp.logs = Reverse(LastN(AllEntries, Min(resp.limit, MaxLimit)))

\* more entries stored than asked for
C9_Witness ==
    /\ Answered
    /\ resp.after = <<>>
    /\ resp.before = <<>>
    /\ resp.limit = 2
    /\ Len(items) >= 3
    /\ Len(resp.logs) = 2

\* C10 as stated: the limit is clamped to [1, MaxLimit], so at most
\* min(max(limit, 1), MaxLimit) entries are returned.
C10_ClampedToOne ==
    Answered => Len(resp.logs) <= Min(Max(resp.limit, 1), MaxLimit)

\* C10 amended: a limit of 0 or less is replaced by DefaultLimit and a limit
\* above MaxLimit by MaxLimit; at most that many entries are returned.
C10_LimitBound ==
    Answered =>
        Len(resp.logs) <= (IF resp.limit <= 0 THEN DefaultLimit
                           ELSE Min(resp.limit, MaxLimit))

\* a limit above MaxLimit answered with exactly MaxLimit entries out of more
C10_Witness ==
    /\ Answered
    /\ resp.limit > MaxLimit
    /\ Len(items) > MaxLimit
    /\ Len(resp.logs) = MaxLimit

-----------------------------------------------------------------------------
(* Properties of the alert engine *)

RuleIndexes == 0..(Len(rules) - 1)
WindowOf(k) == parseWindow(rules[k + 1].Window)

TenMinutes == 10 * 60 * 1000
FiveMinutes == 5 * 60 * 1000
FifteenMinutes == 15 * 60 * 1000

\* C1: with every dedup read and write succeeding, two notifications for the
\* same rule are at least the rule's window apart.
C1_AtMostOnePerWindow ==
    \A k \in RuleIndexes :
        (~WindowOf(k).err /\ sends[RuleID(k)] # NoSend /\ sends[RuleID(k)].prevAt >= 0) =>
            sends[RuleID(k)].at - sends[RuleID(k)].prevAt >= WindowOf(k).d

\* the evaluation ran without a failure of the store or the notifier
Clean(e) == e.outcome \notin {"read_error", "search_error", "notify_failed", "sent_unrecorded"}

Notifications(e) == IF e.outcome \in {"sent", "sent_unrecorded"} THEN 1 ELSE 0

\* C2: for a rule with window 10m, an evaluation without prior dedup state
\* and the next evaluation of the rule, both with matching entries and no
\* failure, send one notification in total when they are 5 minutes apart and
\* two when they are 15 minutes apart.
C2_DedupWindow ==
    [][\A k \in RuleIndexes :
          LET e1 == evals[RuleID(k)]
              e2 == evals'[RuleID(k)]
          IN  (/\ ~WindowOf(k).err /\ WindowOf(k).d = TenMinutes
               /\ e1 # NoEval /\ e2 # e1
               /\ ~e1.hadState /\ e1.matches /\ Clean(e1)
               /\ e2.matches /\ Clean(e2)) =>
                  /\ e2.at - e1.at = FiveMinutes =>
                        Notifications(e1) + Notifications(e2) = 1
                  /\ e2.at - e1.at = FifteenMinutes =>
                        Notifications(e1) + Notifications(e2) = 2]_vars

\* the rule was skipped, with matches in its window, 5 minutes after the
\* evaluation that sent and recorded its only notification
C2_Witness ==
    \E k \in RuleIndexes :
        /\ ~WindowOf(k).err /\ WindowOf(k).d = TenMinutes
        /\ evals[RuleID(k)] # NoEval
        /\ evals[RuleID(k)].outcome = "skipped"
        /\ evals[RuleID(k)].matches
        /\ sends[RuleID(k)] # NoSend
        /\ sends[RuleID(k)].recorded
        /\ sends[RuleID(k)].prevAt = -1
        /\ evals[RuleID(k)].at - sends[RuleID(k)].evalAt = FiveMinutes

\* C3: a dedup record changes only while an invocation evaluates that rule
\* after the notifier returned success for it; an evaluation that ends in a
\* skip, zero matches, a window parse error, a store error or a notifier
\* failure leaves the record as it found it.
C3_WrittenOnlyAfterDelivery ==
    [][/\ \A r \in RuleIDs :
             dedup'[r] # dedup[r] =>
                 \E i \in InvIds : Active(i) /\ RuleID(inv[i].idx) = r /\ inv[i].notified
       /\ \A r \in RuleIDs :
             (evals'[r] # evals[r] /\ evals'[r].outcome # "sent") => ~evals'[r].changed]_vars

\* a record written by an evaluation that delivered its notification
C3_Witness ==
    \E r \in RuleIDs :
        /\ evals[r] # NoEval
        /\ evals[r].outcome = "sent"
        /\ evals[r].changed
        /\ dedup[r] # NoItem

\* C4: after an evaluation that ended in a notifier failure the dedup record
\* is unchanged, and the next evaluation of the rule, if its reads succeed
\* and matching entries are inside the window, invokes the notifier again.
C4_RetryAfterNotifierFailure ==
    [][\A r \in RuleIDs :
          LET e1 == evals[r]
              e2 == evals'[r]
          IN  (e1 # NoEval /\ e2 # e1 /\ e1.outcome = "notify_failed") =>
                  /\ ~e1.changed
                  /\ (e2.matches /\ e2.outcome \notin {"read_error", "search_error"}) =>
                        e2.outcome \in {"notify_failed", "sent", "sent_unrecorded"}]_vars

\* the rule's last evaluation ended in a notifier failure, and the invocation
\* now under way has found matches and is at the notifier call again
C4_Witness ==
    \E i \in InvIds :
        /\ inv[i].pc = "send"
        /\ evals[RuleID(inv[i].idx)] # NoEval
        /\ evals[RuleID(inv[i].idx)].outcome = "notify_failed"
        /\ inv[i].cur.at > evals[RuleID(inv[i].idx)].at

\* C5: an invocation evaluates the rules once each in list order, whatever
\* the outcome of the earlier ones, and returns nil.
C5_EveryRuleInOrder ==
    \A i \in InvIds :
        /\ Active(i) =>
              inv[i].order = [j \in 1..inv[i].idx |-> [rule |-> j - 1, outcome |-> inv[i].order[j].outcome]]
        /\ inv[i].pc = "returned" =>
              /\ inv[i].ret = "nil"
              /\ Len(inv[i].order) = Len(rules)
              /\ \A j \in 1..Len(rules) : inv[i].order[j].rule = j - 1

\* a finished invocation whose first rule had an invalid window and whose
\* second rule failed in the store or at the notifier
C5_Witness ==
    \E i \in InvIds :
        /\ inv[i].pc = "returned"
        /\ Len(inv[i].order) = 3
        /\ inv[i].order[1].outcome = "invalid_window"
        /\ inv[i].order[2].outcome \in {"read_error", "search_error", "notify_failed"}

\* the two invocations ran at the same time
Overlapped == 2 \in inv[1].peers

\* C20: the notifications for a rule that fall inside one window are no more
\* than the invocations that overlapped: two notifications for the same rule
\* closer than the rule's window come from overlapping invocations.
C20_WithinWindowOnlyIfOverlapping ==
    \A k \in RuleIndexes :
        (/\ ~WindowOf(k).err
         /\ sends[RuleID(k)] # NoSend
         /\ sends[RuleID(k)].prevAt >= 0
         /\ sends[RuleID(k)].at - sends[RuleID(k)].prevAt < WindowOf(k).d) =>
            Overlapped

\* both invocations delivered the notification of rule 0 while its dedup
\* record was still absent
C20_Witness ==
    /\ Overlapped
    /\ inv[1].pc = "record" /\ inv[2].pc = "record"
    /\ inv[1].idx = 0 /\ inv[2].idx = 0
    /\ dedup[RuleID(0)] = NoItem
    /\ sends[RuleID(0)].prevAt >= 0
    /\ sends[RuleID(0)].at - sends[RuleID(0)].prevAt < WindowOf(0).d

\* a count of digits followed by m, h or d, or a duration time.ParseDuration
\* accepts
WellFormedWindow(w) ==
    LET window == TrimSpace(ToLower(w))
        n == DigitsLen(window)
    IN  \/ n >= 1 /\ n = Len(window) - 1 /\ window[Len(window)] \in {109, 104, 100}
        \/ ~ParseDuration(window).err

\* C21: a rule whose window is malformed ends every evaluation in the
\* invalid-window error: its dedup record is neither read nor written, no log
\* search is made for it and the notifier is not called.
C21_MalformedWindowIsError ==
    \A k \in RuleIndexes :
        ~WellFormedWindow(rules[k + 1].Window) =>
            /\ evals[RuleID(k)] # NoEval =>
                  /\ evals[RuleID(k)].outcome = "invalid_window"
                  /\ ~evals[RuleID(k)].changed
            /\ \A i \in InvIds : inv[i].pc \in {"search", "send", "record"} => inv[i].idx # k
            /\ sends[RuleID(k)] = NoSend
            /\ dedup[RuleID(k)] = NoItem

\* the rule with window "5x" was evaluated and ended in the error
C21_Witness ==
    /\ Len(rules) = 2
    /\ rules[2].Window = Window5x
    /\ evals[RuleID(1)] # NoEval
    /\ evals[RuleID(1)].outcome = "invalid_window"

\* C22: when recordAlert fails after the email was delivered, processRule
\* returns no error and the alerts table is as before.
C22_UnrecordedSendIsSuccess ==
    [][\A i \in InvIds :
          (/\ inv[i].pc = "record"
           /\ inv'[i].pc # "record"
           /\ inv'[i].order[Len(inv'[i].order)].outcome = "sent_unrecorded") =>
              /\ dedup' = dedup
              /\ "sent_unrecorded" \notin ErrorOutcomes
              /\ inv'[i].ret # "err"]_vars

\* a rule with window 10m was notified twice, 5 minutes apart, the first
\* notification having left no record
C22_Witness ==
    \E k \in RuleIndexes :
        /\ ~WindowOf(k).err
        /\ WindowOf(k).d = TenMinutes
        /\ sends[RuleID(k)] # NoSend
        /\ sends[RuleID(k)].prevAt >= 0
        /\ sends[RuleID(k)].at - sends[RuleID(k)].prevAt = FiveMinutes

\* the calls of processRule in the order of its text
CallOrder == <<"read", "search", "notify", "write">>

\* the number of calls for rule r among the first k of ops
CallsBefore(ops, k, r) == Cardinality({j \in 1..(k - 1) : ops[j].rule = r})

\* C29: the calls one invocation makes for a rule are a dedup read, then a
\* log search, then a notifier call, then a dedup write, each at most once
\* and none without the ones before it; an invocation under way returns,
\* with every rule evaluated.
C29_OneCallEachInOrder ==
    /\ [](\A k \in 1..Len(inv[1].ops) :
            LET n == CallsBefore(inv[1].ops, k, inv[1].ops[k].rule)
            IN  n < 4 /\ inv[1].ops[k].op = CallOrder[n + 1])
    /\ (Active(1) ~> (inv[1].pc = "returned" /\ Len(inv[1].order) = Len(rules)))

\* an invocation returned after a read, a search, a notifier call and a
\* write for rule-1
C29_Witness ==
    /\ inv[1].pc = "returned"
    /\ \E k \in 1..Len(inv[1].ops) : inv[1].ops[k] = [rule |-> 1, op |-> "write"]
    /\ Cardinality({k \in 1..Len(inv[1].ops) : inv[1].ops[k].rule = 1}) = 4

\* TTL expiry may remove an item from the second its ttl names
Expired(item, t) == t \div 1000 >= item.ttl

\* the record still makes shouldSendAlert refuse at instant t
Suppresses(item, t, window) == t - item.lastAlertSent * 1000 < window

\* the instants at which a record written at instant t is looked at: the
\* clock readings and the last millisecond at which it suppresses
InstantsAfter(item, t, window) ==
    {u \in Instants : u >= t} \cup {t, item.lastAlertSent * 1000 + window - 1}

\* the step is the recordAlert of rule-1 after a delivered notification
RecordStep == inv[1].pc = "record" /\ inv[1].idx = 1

WindowMatches(rule, window, t) ==
    LET Matches(e) == EntryMatches(e, ToLower(rule.Pattern))
    IN  SelectSeq(queryLogsByTimeRange(items, t - window, t), Matches)

\* C27: the search of a rule keeps at most 200 matches, the most recent ones
\* of the window; the notification lists the first 20 of them in the order of
\* the result, all of them when there are at most 20, and beyond 20 states
\* the number left out, the matches less 20; the matchCount written to the
\* dedup record is the number of matches the search kept.
C27_MatchLimits ==
    [][LET logs == inv[1].logs
           kept == inv'[1].logs
           all == WindowMatches(rules[1], inv[1].window, now)
           email == sends'[RuleID(0)].email
       IN  /\ (inv[1].pc = "search" /\ inv'[1].pc = "send") =>
                 /\ Len(kept) <= 200
                 /\ kept = Take(all, 200)
                 /\ \A k \in 1..(Len(all) - 1) : StrLess(all[k + 1].Cursor, all[k].Cursor)
           /\ (inv[1].pc = "send" /\ inv'[1].pc = "record") =>
                 /\ Len(email.displayLogs) <= 20
                 /\ email.displayLogs = Take(logs, 20)
                 /\ email.matches = Len(logs)
                 /\ email.truncated = (Len(logs) > 20)
                 /\ email.truncated => email.more = Len(logs) - 20
           /\ (inv[1].pc = "record" /\ dedup' # dedup) =>
                 dedup'[RuleID(0)].matchCount = Len(logs)]_vars

\* a notification for a rule with more than 200 matches in its window was
\* delivered and recorded
C27_Witness ==
    /\ Len(items) > 250
    /\ sends[RuleID(0)] # NoSend
    /\ sends[RuleID(0)].recorded
    /\ sends[RuleID(0)].email.matches = 200
    /\ sends[RuleID(0)].email.more = 180
    /\ dedup[RuleID(0)] # NoItem
    /\ dedup[RuleID(0)].matchCount = 200

\* the outcomes of a failed read of the dedup record and of a failed search
FailedLookups == {"read_error", "search_error"}

\* invocation 1 has called the notifier or written the dedup record for the
\* rule at position r
NotifiedOrWrote(ops, r) ==
    \E k \in 1..Len(ops) : ops[k].rule = r /\ ops[k].op \in {"notify", "write"}

\* the step in which the read of the dedup record, or the search, of the
\* rule under way fails
LookupFails ==
    \/ CheckRule(1, TRUE) /\ ~parseWindow(rules[inv[1].idx + 1].Window).err
    \/ SearchRule(1, TRUE)

\* C38: when the read of the dedup record or the log search fails for a
\* rule, the evaluation of the rule ends there with the error: the notifier
\* is not called for the rule in this invocation and the rule's dedup record
\* is what it was when the evaluation began.
C38_FailedLookupFailsClosed ==
    /\ [](\A k \in 1..Len(inv[1].order) :
             inv[1].order[k].outcome \in FailedLookups =>
                 /\ ~NotifiedOrWrote(inv[1].ops, inv[1].order[k].rule)
                 /\ ~evals[RuleID(inv[1].order[k].rule)].changed
                 /\ evals[RuleID(inv[1].order[k].rule)].outcome = inv[1].order[k].outcome)
    /\ [][LookupFails =>
             /\ dedup' = dedup
             /\ sends' = sends
             /\ Len(inv'[1].order) = Len(inv[1].order) + 1
             /\ inv'[1].order[Len(inv'[1].order)].rule = inv[1].idx
             /\ inv'[1].order[Len(inv'[1].order)].outcome \in FailedLookups]_vars

\* the rule with a dedup record from an earlier invocation is eligible again
\* and its search fails
C38_Witness ==
    /\ \E k \in 1..Len(inv[1].order) :
          /\ inv[1].order[k].outcome = "search_error"
          /\ dedup[RuleID(inv[1].order[k].rule)] # NoItem
          /\ sends[RuleID(inv[1].order[k].rule)] # NoSend

\* the text "rule-i" for a list position i below 10
KeyOfPosition(i) == <<114, 117, 108, 101, 45, 48 + i>>

\* the step of invocation 1 that decides on the dedup record whether the
\* rule under way is evaluated further
EligibilityStep ==
    /\ inv[1].pc = "check"
    /\ inv'[1] # inv[1]
    /\ ~parseWindow(rules[inv[1].idx + 1].Window).err
    /\ \/ inv'[1].pc = "search"
       \/ inv'[1].order[Len(inv'[1].order)].outcome = "skipped"

\* C39: the evaluation of the rule at list position i decides on the dedup
\* record with key rule-i and writes no other: a step changes at most the
\* record rule-i of the rule under way, and only when recordAlert is
\* called; no step of the alert engine changes the log table.
C39_OnlyOwnDedupRecord ==
    [][/\ items' = items
       /\ \A r \in DOMAIN dedup :
             dedup'[r] # dedup[r] =>
                 /\ inv[1].pc = "record"
                 /\ r = KeyOfPosition(inv[1].idx)
                 /\ dedup'[r].ruleID = KeyOfPosition(inv[1].idx)
       /\ EligibilityStep =>
             /\ KeyOfPosition(inv[1].idx) \in DOMAIN dedup
             /\ (inv'[1].pc = "search") =
                   shouldSendAlert(dedup[KeyOfPosition(inv[1].idx)], now,
                                   parseWindow(rules[inv[1].idx + 1].Window).d)]_vars

\* the second rule is recorded while the first rule's record stands, and
\* the two records differ
C39_Witness ==
    /\ dedup[RuleID(0)] # NoItem
    /\ dedup[RuleID(1)] # NoItem
    /\ dedup[RuleID(0)].lastAlertSent # dedup[RuleID(1)].lastAlertSent
    /\ inv[1].pc = "returned"
    /\ Len(inv[1].order) = 2
    /\ inv[1].order[2].outcome = "sent"
    /\ inv[1].order[1].outcome = "skipped"

-----------------------------------------------------------------------------
(* Properties of appends *)

\* instant a before instant b, to the nanosecond
TimeLess(a, b) == a[1] < b[1] \/ (a[1] = b[1] /\ a[2] < b[2])

\* C11: sort keys and the cursors read back are ordered as the stored
\* timestamps are, for every two stored items.
C11_KeyOrderIsTimeOrder ==
    LET logs == unmarshalAndReassemble(items)
    IN  \A i, j \in 1..Len(items) :
            TimeLess(items[i].timestamp, items[j].timestamp) =>
                /\ StrLess(items[i].timestamp_seq, items[j].timestamp_seq)
                /\ StrLess(logs[i].Cursor, logs[j].Cursor)

\* C11 (amended): sort keys and the cursors read back are ordered as the
\* milliseconds of the stored timestamps are; two items stamped within the
\* same millisecond may come in either order.
C11_KeyOrderIsMillisecondOrder ==
    LET logs == unmarshalAndReassemble(items)
    IN  \A i, j \in 1..Len(items) :
            items[i].timestamp[1] < items[j].timestamp[1] =>
                /\ StrLess(items[i].timestamp_seq, items[j].timestamp_seq)
                /\ StrLess(logs[i].Cursor, logs[j].Cursor)

\* the parts of a split message and an entry of a later millisecond whose
\* random part is smaller than that of an earlier item
C11_Witness ==
    /\ resp # NoResp /\ ~resp.err /\ Len(resp.puts) >= 2
    /\ \E i, j \in 1..Len(items) :
          /\ items[i].timestamp[1] < items[j].timestamp[1]
          /\ StrLess(SubSeq(items[j].timestamp_seq, UlidTimeLen + 1, UlidTimeLen + UlidEntropyLen),
                     SubSeq(items[i].timestamp_seq, UlidTimeLen + 1, UlidTimeLen + UlidEntropyLen))

CeilDiv(a, b) == IF a % b = 0 THEN a \div b ELSE (a \div b) + 1

RECURSIVE Concat(_)
Concat(ss) == IF ss = <<>> THEN <<>> ELSE Head(ss) \o Concat(Tail(ss))

\* the text "[CONTINUED i/n]"
Marker(i, n) ==
    <<91, 67, 79, 78, 84, 73, 78, 85, 69, 68, 32>> \o Itoa(i) \o <<47>> \o Itoa(n) \o <<93>>

\* the message of part i (0-based) of n without its markers, or <<-1>> when
\* a marker is not where it belongs
StripMarkers(m, i, n) ==
    LET k == Len(Marker(i + 1, n)) + 1
        lead == i > 0
        trail == i < n - 1
        from == IF lead THEN k + 1 ELSE 1
        to == IF trail THEN Len(m) - k ELSE Len(m)
    IN  IF /\ lead => (Len(m) >= k /\ SubSeq(m, 1, k) = Marker(i + 1, n) \o <<32>>)
           /\ trail => (Len(m) >= k /\ SubSeq(m, Len(m) - k + 1, Len(m)) = <<32>> \o Marker(i + 1, n))
           /\ from <= to + 1
        THEN SubSeq(m, from, to)
        ELSE <<-1>>

\* C12: a successful StoreLogEntry puts one item with the unchanged message
\* when the message is at most MaxMessageSize bytes; otherwise it puts
\* ceil(size / MaxMessageSize) items, part i holding bytes
\* i*MaxMessageSize+1 .. min((i+1)*MaxMessageSize, size) between the markers
\* [CONTINUED i+1/n] and stamped i ms after the entry, so that the parts read
\* from the table in cursor order, markers stripped, give the message back.
C12_SplitCoversMessage ==
    (resp # NoResp /\ resp.kind = "StoreLogEntry" /\ ~resp.err) =>
        LET msg == resp.entry.Message
            size == Len(msg)
            n == Len(resp.puts)
            read == SelectSeq(items, LAMBDA x : \E k \in 1..n : resp.puts[k] = x)
        IN  IF size <= MaxMessageSize
            THEN n = 1 /\ resp.puts[1].message = msg /\ read = resp.puts
            ELSE /\ n = CeilDiv(size, MaxMessageSize)
                 /\ \A i \in 0..(n - 1) :
                       /\ resp.puts[i + 1].timestamp =
                             <<resp.entry.Timestamp + i, resp.entry.Nanos>>
                       /\ StripMarkers(resp.puts[i + 1].message, i, n) =
                             SubSeq(msg, i * MaxMessageSize + 1,
                                    Min((i + 1) * MaxMessageSize, size))
                 /\ read = resp.puts
                 /\ Concat([k \in 1..Len(read) |-> StripMarkers(read[k].message, k - 1, n)]) = msg

\* a message of 2 * MaxMessageSize + 1 bytes stored as three parts
C12_Witness ==
    /\ resp # NoResp /\ resp.kind = "StoreLogEntry" /\ ~resp.err
    /\ Len(resp.entry.Message) = 2 * MaxMessageSize + 1
    /\ Len(resp.puts) = 3

\* C23: every item of the log table has a message of at most MaxMessageSize
\* bytes, the parts of an oversized message included.
C23_ItemWithinMax ==
    \A x \in 1..Len(items) : Len(items[x].message) <= MaxMessageSize

\* a message of exactly MaxMessageSize bytes was stored as one item
C23_Witness ==
    /\ resp # NoResp /\ resp.kind = "StoreLogEntry" /\ ~resp.err
    /\ Len(resp.entry.Message) = MaxMessageSize
    /\ \E x \in 1..Len(items) : items[x] = resp.puts[1]

KeysOf(its) == {its[k].timestamp_seq : k \in 1..Len(its)}

\* C24: a StoreLogEntry that returns an error has put the parts before the
\* failed one and nothing else: the table afterwards is the table before with
\* parts 0..i-1 put into it, no later part is in it, and reading the whole
\* table returns the stored parts.
C24_PartialWriteVisible ==
    [][(resp' # resp /\ resp'.kind = "StoreLogEntry" /\ resp'.err) =>
          LET puts == resp'.puts
              n == NumParts(Len(resp'.entry.Message))
              i == Len(puts)
              read == unmarshalAndReassemble(Query(items', [op |-> "all"], TRUE, 0))
          IN  /\ i < Max(n, 1)
              /\ \A k \in 0..(i - 1) :
                    /\ puts[k + 1].timestamp[1] = resp'.entry.Timestamp + k
                    /\ StripMarkers(puts[k + 1].message, k, n) =
                          SubSeq(resp'.entry.Message, k * MaxMessageSize + 1,
                                 Min((k + 1) * MaxMessageSize, Len(resp'.entry.Message)))
                    /\ \E x \in 1..Len(read) :
                          /\ read[x].Cursor = SplitHash0(puts[k + 1].timestamp_seq)
                          /\ read[x].Message = puts[k + 1].message
              /\ \A x \in 1..Len(items') :
                    \/ \E k \in 1..i : items'[x] = puts[k]
                    \/ \E y \in 1..Len(items) :
                          items[y] = items'[x] /\ items[y].timestamp_seq \notin KeysOf(puts)
              /\ Len(items') = Cardinality(KeysOf(items) \cup KeysOf(puts))]_vars

\* the second PutItem of a three-part message failed: the first part is in the
\* table, alone
C24_Witness ==
    /\ resp # NoResp /\ resp.kind = "StoreLogEntry" /\ resp.err
    /\ NumParts(Len(resp.entry.Message)) = 3
    /\ Len(resp.puts) = 1
    /\ items = resp.puts

\* the fields of an item that hold text
TextFields == {"timestamp_seq", "level", "message", "source", "logger", "request_id"}

\* C25: the Cursor of every entry a read returns is the part before '#' of
\* the sort key of the item the entry was read from; the item an append puts
\* is keyed by the identifier made of the entry's timestamp and the random
\* part, has no field for a cursor and, when the entry came with a Cursor,
\* holds that value nowhere.
C25_CursorFromStoredKey ==
    /\ (resp # NoResp /\ resp.kind \in {"GetLogs", "queryLogsByTimeRange"}) =>
          \A i \in 1..Len(resp.logs) :
              \E x \in 1..Len(items) :
                  /\ resp.logs[i].Cursor = SplitHash0(items[x].timestamp_seq)
                  /\ resp.logs[i].Message = items[x].message
                  /\ resp.logs[i].Timestamp = items[x].timestamp[1]
    /\ (resp # NoResp /\ resp.kind = "StoreLogEntry" /\ ~resp.err) =>
          LET id == UlidString(UlidTimestamp(resp.entry.Timestamp), resp.entropy)
          IN  /\ \E x \in 1..Len(items) :
                    /\ items[x].timestamp_seq = id \o <<HashChar, 48>>
                    /\ items[x].message = resp.entry.Message
              /\ \A x \in 1..Len(items) :
                    /\ DOMAIN items[x] = TextFields \cup {"pk", "timestamp", "expire_at"}
                    /\ resp.entry.Cursor # <<>> =>
                          \A f \in TextFields :
                              /\ items[x][f] # resp.entry.Cursor
                              /\ SplitHash0(items[x][f]) # resp.entry.Cursor

\* an entry that arrived with the identifier of another instant as its Cursor
\* was stored, and a read returned it under the identifier of its own instant
C25_Witness ==
    /\ resp # NoResp /\ resp.kind = "GetLogs"
    /\ Len(resp.logs) = 1
    /\ resp.logs[1].Level = LevelError
    /\ resp.logs[1].Cursor = UlidString(0, MaxEntropy)

\* the read of the whole table has been made after the last append
Scanned == chain # NoChain /\ chain.kind = "scan" /\ resp # NoResp

\* the keys of the items put so far
PutKeys == {CountPuts[k].timestamp_seq : k \in 1..Len(CountPuts)}

-----------------------------------------------------------------------------
(* Properties of the chunk-group store variant *)

\* the chunks of group u among the items its, in ascending chunk index
ChunksAscending(its, u) ==
    LET n == Cardinality({k \in 1..Len(its) : SplitHash0(its[k].timestamp_seq) = u})
    IN  [i \in 1..n |->
            (CHOOSE x \in {its[k] : k \in 1..Len(its)} :
                SplitHash0(x.timestamp_seq) = u /\ x.chunk_index = i - 1).message]

\* all chunks 0..n-1 of group u are among the items its
GroupComplete(its, u) ==
    \E n \in 2..Len(its) :
        /\ \A k \in 1..Len(its) :
              SplitHash0(its[k].timestamp_seq) = u => its[k].total_chunks = n
        /\ \A i \in 0..(n - 1) :
              \E k \in 1..Len(its) :
                  SplitHash0(its[k].timestamp_seq) = u /\ its[k].chunk_index = i

\* C13: a stored oversized message is ceil(size / MaxMessageSize) items that
\* share one identifier, with chunk indexes 0..n-1; a read that fetches all
\* of them yields one entry for the identifier whose message is the chunks
\* concatenated in ascending chunk index, the original message.
C13_ChunkRoundTrip ==
    /\ (resp # NoResp /\ resp.kind = "StoreLogEntry" /\ ~resp.err
            /\ Len(resp.entry.Message) > MaxMessageSize) =>
          /\ GroupComplete(items, resp.id)
          /\ Len(ChunksAscending(items, resp.id)) =
                CeilDiv(Len(resp.entry.Message), MaxMessageSize)
          /\ Concat(ChunksAscending(items, resp.id)) = resp.entry.Message
    /\ (resp # NoResp /\ resp.kind \in {"queryLogsByTimeRange", "GetLogs"}) =>
          \A u \in ChunkGroups(resp.fetched) :
              GroupComplete(resp.fetched, u) =>
                  \A k \in 1..Len(resp.logs) :
                      resp.logs[k].Cursor = u =>
                          /\ resp.logs[k].Message = Concat(ChunksAscending(resp.fetched, u))
                          /\ \A j \in 1..Len(resp.logs) : resp.logs[j].Cursor = u => j = k

\* the response of a read of the chunk runs
ChunkRead == resp # NoResp /\ resp.kind \in {"queryLogsByTimeRange", "GetLogs"}

\* the items of group u among the items its, in the order of its
GroupItems(its, u) ==
    SelectSeq(its, LAMBDA x : x.total_chunks > 1 /\ SplitHash0(x.timestamp_seq) = u)

SingleItems(its) == SelectSeq(its, LAMBDA x : ~(x.total_chunks > 1))

\* fewer items of group u are among its than the group's totalChunks
PartialGroup(its, u) == Len(GroupItems(its, u)) < GroupItems(its, u)[1].total_chunks

\* out holds one entry for every group of its, then one for every single item
OneEntryEach(its, out) ==
    LET g == Cardinality(ChunkGroups(its))
    IN  /\ Len(out) = g + Len(SingleItems(its))
        /\ \A u \in ChunkGroups(its) : Cardinality({k \in 1..g : out[k].Cursor = u}) = 1
        /\ \A k \in 1..g : out[k].Cursor \in ChunkGroups(its)

\* C31: decoding items among which a chunk group is partial does not fail
\* the read; the group gives exactly one entry, whose message is the messages
\* of its chunks that are present put together (in the order of the items),
\* and every other group and every single item gives its entry as it does
\* without the partial group.
C31_PartialGroupDecoded ==
    ChunkRead =>
        \A p \in 1..Len(resp.pages) :
            LET its == resp.pages[p]
                out == resp.decoded[p]
                g == Cardinality(ChunkGroups(its))
            IN  (\E u \in ChunkGroups(its) : PartialGroup(its, u)) =>
                    /\ ~resp.err
                    /\ OneEntryEach(its, out)
                    /\ \A u \in ChunkGroups(its), k \in 1..g :
                          out[k].Cursor = u =>
                              /\ out[k].Message =
                                    Concat([i \in 1..Len(GroupItems(its, u)) |->
                                               GroupItems(its, u)[i].message])
                              /\ out[k].Level = GroupItems(its, u)[1].level
                              /\ out[k].Timestamp = GroupItems(its, u)[1].timestamp[1]
                    /\ \A k \in 1..Len(SingleItems(its)) :
                          /\ out[g + k].Message = SingleItems(its)[k].message
                          /\ out[g + k].Cursor = SplitHash0(SingleItems(its)[k].timestamp_seq)
                          /\ out[g + k].Level = SingleItems(its)[k].level
                          /\ out[g + k].Timestamp = SingleItems(its)[k].timestamp[1]

\* a read decodes two of the three chunks of a group together with a single
\* item
C31_Witness ==
    /\ ChunkRead
    /\ \E p \in 1..Len(resp.pages) :
          /\ \E u \in ChunkGroups(resp.pages[p]) :
                /\ PartialGroup(resp.pages[p], u)
                /\ Len(GroupItems(resp.pages[p], u)) = 2
          /\ SingleItems(resp.pages[p]) # <<>>
          /\ Len(resp.decoded[p]) = 2

\* C32: GetLogs of the variant never returns an entry whose cursor is the
\* cursor it was given, as afterCursor or (without afterCursor) as
\* beforeCursor, also when that entry is stored as several chunks.
C32_ChunkCursorExclusive ==
    (ChunkRead /\ resp.kind = "GetLogs") =>
        \A k \in 1..Len(resp.logs) :
            /\ resp.after # <<>> => resp.logs[k].Cursor # resp.after
            /\ (resp.after = <<>> /\ resp.before # <<>>) => resp.logs[k].Cursor # resp.before

\* GetLogs is given the cursor of an entry stored as two chunks or more, as
\* afterCursor and as beforeCursor
C32_Witness ==
    /\ ChunkRead /\ resp.kind = "GetLogs"
    /\ \E c \in {resp.after, resp.before} :
          /\ c # <<>>
          /\ c \in ChunkGroups(items)
          /\ GroupComplete(items, c)

\* the cursors of the entries in the table
StoredCursors(its) == {SplitHash0(its[i].timestamp_seq) : i \in 1..Len(its)}

\* C33: GetLogs of the variant with limit N and beforeCursor X, when more
\* than N entries lie before X, returns N entries, in ascending cursor
\* order, and they are the N entries next below X.
C33_ChunkBeforeReturnsNearest ==
    (ChunkRead /\ resp.kind = "GetLogs" /\ resp.after = <<>> /\ resp.before # <<>>) =>
        LET n == EffectiveLimit(resp.limit)
            below == {c \in StoredCursors(items) : StrLess(c, resp.before)}
            got == {resp.logs[k].Cursor : k \in 1..Len(resp.logs)}
        IN  Cardinality(below) > n =>
                /\ Len(resp.logs) = n
                /\ \A k \in 1..(Len(resp.logs) - 1) :
                      StrLess(resp.logs[k].Cursor, resp.logs[k + 1].Cursor)
                /\ got \subseteq below
                /\ \A c \in below \ got : \A d \in got : StrLess(c, d)

\* GetLogs with limit 1 and a beforeCursor below which two entries of one
\* item each are stored
C33_Witness ==
    /\ ChunkRead /\ resp.kind = "GetLogs" /\ resp.after = <<>> /\ resp.before # <<>>
    /\ resp.limit = 1
    /\ Cardinality({c \in StoredCursors(items) : StrLess(c, resp.before)}) = 2
    /\ ChunkGroups(items) = {}

\* all totalChunks items of the entry with cursor u are in the table
AllChunksStored(its, u) ==
    \E n \in 1..Len(its) :
        /\ \A k \in 1..Len(its) :
              SplitHash0(its[k].timestamp_seq) = u => its[k].total_chunks = n
        /\ \A i \in 0..(n - 1) :
              \E k \in 1..Len(its) :
                  SplitHash0(its[k].timestamp_seq) = u /\ its[k].chunk_index = i

\* the reads that deliver in ascending cursor order
AscendingRead == resp.kind = "GetLogs" /\ (resp.after # <<>> \/ resp.before # <<>>)

\* C34: in the result of a GetLogs or time-range read of the variant, an
\* entry whose chunks are all stored appears at most once, carries its
\* complete message when it appears, and stands among the other such entries
\* in the order of the scan.
C34_WholeEntriesOnceInOrder ==
    ChunkRead =>
        LET whole == {k \in 1..Len(resp.logs) : AllChunksStored(items, resp.logs[k].Cursor)}
        IN  /\ \A k, j \in whole : resp.logs[k].Cursor = resp.logs[j].Cursor => k = j
            /\ \A k \in whole :
                  resp.logs[k].Message = Concat(ChunksAscending(items, resp.logs[k].Cursor))
            /\ \A k, j \in whole :
                  k < j => IF AscendingRead
                           THEN StrLess(resp.logs[k].Cursor, resp.logs[j].Cursor)
                           ELSE StrLess(resp.logs[j].Cursor, resp.logs[k].Cursor)

\* a read whose item limit, or whose page boundary, falls between two chunks
\* of an entry that is stored whole
C34_Witness ==
    /\ ChunkRead
    /\ \E u \in ChunkGroups(items) :
          /\ AllChunksStored(items, u)
          /\ \E p \in 1..Len(resp.pages) :
                /\ u \in ChunkGroups(resp.pages[p])
                /\ PartialGroup(resp.pages[p], u)

-----------------------------------------------------------------------------
(* Properties of the time-range reads *)

IsLetter(c) == (c >= 65 /\ c <= 90) \/ (c >= 97 /\ c <= 122)

SameIgnoringCase(a, b) == a = b \/ (IsLetter(a) /\ IsLetter(b) /\ (a - b = 32 \/ b - a = 32))

\* field contains query, letters compared without regard to case
ContainsIgnoringCase(field, query) ==
    \E off \in 0..Len(field) :
        /\ off + Len(query) <= Len(field)
        /\ \A k \in 1..Len(query) : SameIgnoringCase(field[off + k], query[k])

Descending(logs) ==
    \A i, j \in 1..Len(logs) : i < j => StrLess(logs[j].Cursor, logs[i].Cursor)

Ascending(logs) ==
    \A i, j \in 1..Len(logs) : i < j => StrLess(logs[i].Cursor, logs[j].Cursor)

\* the time-range result the last call worked on
RangeOfCall == queryLogsByTimeRange(items, resp.start, resp.end)

MatchesOfCall ==
    SelectSeq(RangeOfCall, LAMBDA e :
        \/ ContainsIgnoringCase(e.Message, resp.query)
        \/ ContainsIgnoringCase(e.Level, resp.query)
        \/ ContainsIgnoringCase(e.Source, resp.query))

\* C14: SearchLogsWithLimit returns the entries of the time-range result
\* whose message, level or source contains the query without regard to case,
\* in the order of that result, cut to the first limit matches when
\* limit > 0; the empty query matches every entry.
C14_SearchIsFilteredRange ==
    (resp # NoResp /\ resp.kind = "SearchLogsWithLimit") =>
        /\ resp.logs = IF resp.limit > 0 THEN Take(MatchesOfCall, resp.limit)
                       ELSE MatchesOfCall
        /\ resp.query = <<>> =>
              resp.logs = IF resp.limit > 0 THEN Take(RangeOfCall, resp.limit)
                          ELSE RangeOfCall

\* a search for "BOOM" with limit 1 over a range of three entries: two match,
\* the third has "boom" only in its logger and request id
C14_Witness ==
    /\ resp # NoResp /\ resp.kind = "SearchLogsWithLimit"
    /\ resp.query = QueryBoom /\ resp.limit = 1
    /\ Len(RangeOfCall) = 3 /\ Len(MatchesOfCall) = 2 /\ Len(resp.logs) = 1
    /\ \E k \in 1..3 : RangeOfCall[k].Logger = MsgBoom

\* C15: time-range reads and searches return entries in descending cursor
\* order; GetLogsByTimeRange returns the limit most recent entries of the
\* range, descending, and GetLogsByTimeRangeForward the limit oldest,
\* ascending.
C15_RangeOrder ==
    /\ (resp # NoResp /\ resp.kind \in {"queryLogsByTimeRange", "SearchLogsWithLimit"}) =>
          Descending(resp.logs)
    /\ (resp # NoResp /\ resp.kind = "GetLogsByTimeRange" /\ ~resp.err) =>
          IF resp.forward
          THEN Ascending(resp.logs) /\ resp.logs = Take(Reverse(RangeOfCall), resp.limit)
          ELSE Descending(resp.logs) /\ resp.logs = Take(RangeOfCall, resp.limit)

\* a forward read with limit 2 over a range of three entries
C15_Witness ==
    /\ resp # NoResp /\ resp.kind = "GetLogsByTimeRange" /\ ~resp.err
    /\ resp.forward /\ resp.limit = 2
    /\ Len(RangeOfCall) = 3 /\ Len(resp.logs) = 2

\* C16: a time-range query over [start, end] returns exactly the stored
\* entries whose timestamp, in milliseconds, is at least start and at most
\* end, whatever the random part of their identifier.
C16_RangeInclusive ==
    (resp # NoResp /\ resp.kind = "queryLogsByTimeRange") =>
        \A k \in 1..Len(items) :
            (resp.start <= items[k].timestamp[1] /\ items[k].timestamp[1] <= resp.end)
                <=> \E j \in 1..Len(resp.logs) :
                        resp.logs[j].Cursor = SplitHash0(items[k].timestamp_seq)

-----------------------------------------------------------------------------
(* Properties of the reads with a date or a cursor from the caller *)

\* a text of the form YYYY-MM-DD
IsDateText(d) ==
    /\ Len(d) = 10
    /\ \A i \in {1, 2, 3, 4, 6, 7, 9, 10} : IsDigit(d[i])
    /\ d[5] = 45 /\ d[8] = 45

\* an identifier: 26 characters of the Crockford alphabet, the first at
\* most '7'
IsIdentifier(c) ==
    /\ Len(c) = UlidTimeLen + UlidEntropyLen
    /\ \A i \in 1..Len(c) : \E k \in 1..32 : CrockfordAlphabet[k] = c[i]
    /\ c[1] <= 55

BadCursor(c) == c # <<>> /\ ~IsIdentifier(c)

\* the call that r answers had a malformed date or cursor
MalformedInput(r) ==
    CASE r.kind = "GetLogsByDate" -> ~IsDateText(r.date)
      [] r.kind = "SearchLogsWithCursor" -> BadCursor(r.before)
      [] r.kind = "GetLogs" -> BadCursor(r.after) \/ BadCursor(r.before)

\* a step that is a call of an operation in kinds with a malformed date or
\* cursor ends in an error, without a query to the backing store and without
\* a change of the table
RejectsMalformed(kinds) ==
    (resp' # resp /\ resp'.kind \in kinds /\ MalformedInput(resp')) =>
        (resp'.err /\ ~resp'.queried /\ items' = items)

\* C26: GetLogsByDate with a date that is not YYYY-MM-DD, SearchLogsWithCursor
\* with a beforeCursor that is no identifier, and GetLogs with an afterCursor
\* or beforeCursor that is no identifier all end in an error at once, with no
\* query to the backing store and no change of the table.
C26_MalformedInputRejected ==
    [][RejectsMalformed({"GetLogsByDate", "SearchLogsWithCursor", "GetLogs"})]_vars

\* GetLogs was called with a cursor that is no identifier, on a table that
\* holds items
C26_Witness ==
    /\ resp # NoResp /\ resp.kind = "GetLogs"
    /\ BadCursor(resp.after)
    /\ Len(items) > 0

\* the cursors of a list of entries are strictly descending
CursorsDescending(logs) ==
    \A k \in 1..(Len(logs) - 1) : StrLess(logs[k + 1].Cursor, logs[k].Cursor)

\* C35: a finished chain of search pages (same query, range and limit, each
\* page asked with the last cursor of the page before as beforeCursor, until
\* a page is empty) holds every matching entry of the time range exactly
\* once, in descending cursor order: it is the result of the same search
\* asked without limit and without cursor.
C35_SearchChainCoversRange ==
    (chain # NoChain /\ chain.kind = "search" /\ chain.done) =>
        /\ CursorsDescending(chain.acc)
        /\ chain.acc = SearchLogsWithCursor(items, chain.query, chain.start, chain.end,
                                            <<>>, 0).logs

\* a finished chain of two pages or more, one of which ended at an entry
\* that shares its millisecond with another matching entry
C35_Witness ==
    /\ chain # NoChain /\ chain.kind = "search" /\ chain.done
    /\ chain.pages >= 2
    /\ \E k \in 1..Len(chain.acc), i \in 1..Len(items) :
          /\ k % chain.limit = 0
          /\ items[i].timestamp[1] = chain.acc[k].Timestamp
          /\ SplitHash0(items[i].timestamp_seq) # chain.acc[k].Cursor
          /\ EntryMatches(unmarshalAndReassemble(<<items[i]>>)[1], ToLower(chain.query))

\* C36: a reader that goes on calling GetLogs with afterCursor set to the
\* greatest cursor it has received eventually receives every entry that was
\* appended successfully, whatever the entry's timestamp was when it was
\* appended: whenever entries are stored, the reader later holds every
\* stored entry (the table of the runs is finite and only grows).
C36_TailReceivesEveryAppend ==
    (chain # NoChain /\ StoredCursors(items) # {})
        ~> (chain # NoChain /\ StoredCursors(items) \subseteq chain.received)

\* the table holds an entry below the reader's cursor that the reader has
\* not received
C36_Witness ==
    /\ chain # NoChain /\ chain.kind = "tail"
    /\ \E c \in StoredCursors(items) :
          /\ c \notin chain.received
          /\ StrLess(c, chain.cursor)

\* a successful /logs/datetime response
DateTimeOk == resp # NoResp /\ resp.kind = "getLogsByDateTime" /\ resp.status = 200

\* the response is its two parts, of at most 100 entries each, in strictly
\* ascending cursor order, the first part below the target cursor and the
\* second above it
DateTimeParts ==
    /\ resp.logs = resp.before \o resp.after
    /\ Len(resp.before) <= DateTimeLimit /\ Len(resp.after) <= DateTimeLimit
    /\ \A k \in 1..(Len(resp.logs) - 1) : StrLess(resp.logs[k].Cursor, resp.logs[k + 1].Cursor)
    /\ \A k \in 1..Len(resp.before) : StrLess(resp.before[k].Cursor, resp.target)
    /\ \A k \in 1..Len(resp.after) : StrLess(resp.target, resp.after[k].Cursor)

\* the stored cursors strictly between the first and the last element of the
\* response that the response does not hold
DateTimeOmitted ==
    {c \in StoredCursors(items) :
        /\ resp.logs # <<>>
        /\ StrLess(resp.logs[1].Cursor, c)
        /\ StrLess(c, resp.logs[Len(resp.logs)].Cursor)
        /\ \A k \in 1..Len(resp.logs) : resp.logs[k].Cursor # c}

-----------------------------------------------------------------------------
(* Properties of the HTTP handler *)

\* C17: a request to a protected route reaches its handler only when it
\* carries the id of a session that a login with the correct UI password
\* created and that, when the request arrives, has not been logged out and
\* is not past its expiry; any other request is redirected to the login page
\* and reads nothing from the log store.
C17_ProtectedNeedsLiveSession ==
    web.last.kind = "protected" =>
        IF web.last.reached
        THEN /\ web.last.wasIssued
             /\ ~web.last.wasLoggedOut
             /\ ~web.last.wasExpired
        ELSE /\ web.last.status = 302
             /\ ~web.last.storeRead

\* C18: POST /logs/ingest writes to the log table only when the
\* Authorization header equals "Bearer " followed by the ingest secret; with
\* any other header, or none, the answer is 401 and nothing is written.
C18_IngestNeedsSecret ==
    [][/\ items' # items =>
            /\ web'.last.kind = "ingest"
            /\ web'.last.authorization = BearerPrefix \o ingestSecret
       /\ (web'.last.kind = "ingest"
           /\ web'.last.authorization # BearerPrefix \o ingestSecret) =>
            web'.last.status = 401]_vars

\* after an accepted request stored an entry, a request whose header differs
\* from the expected one only in the case of "Bearer" was refused
C18_Witness ==
    /\ web.last.kind = "ingest"
    /\ web.last.status = 401
    /\ web.last.authorization = ToLower(BearerPrefix) \o ingestSecret
    /\ Len(items) = 1

-----------------------------------------------------------------------------
(* Properties of the logback appender *)

Is2xx(outcome) == outcome.kind = "response" /\ outcome.code >= 200 /\ outcome.code <= 299

IsRefusal(outcome) == outcome.kind = "response" /\ outcome.code \in {400, 401, 403, 404}

IsTransient(outcome) ==
    \/ outcome.kind = "network"
    \/ outcome.kind = "response" /\ outcome.code >= 500 /\ outcome.code <= 599

AttemptsOf(log) == {i \in 1..Len(log) : log[i].op = "sendLog"}

CallEnded == appender.pc \in {"returned", "thrown"}

\* what holds of every call, interrupted or not: the bound on attempts, the
\* end after a 2xx or a 400/401/403/404 answer, one wait of retryDelayMs
\* between attempts
RetryShape(log) ==
    /\ Cardinality(AttemptsOf(log)) <= appender.maxRetries + 1
    /\ \A i \in AttemptsOf(log) :
          (Is2xx(log[i].outcome) \/ IsRefusal(log[i].outcome)) => i = Len(log)
    /\ \A i \in 1..(Len(log) - 1) :
          /\ log[i].op = "sendLog" => (log[i + 1].op = "sleep" /\ log[i + 1].ms = retryDelayMs)
          /\ log[i].op = "sleep" => log[i + 1].op = "sendLog"

\* C19 as stated: a call makes at most maxRetries + 1 attempts, ends with the
\* first 2xx answer, waits retryDelayMs between attempts, makes no attempt
\* after a 400, 401, 403 or 404 answer, and after a network error or a 5xx
\* answer goes on to the next attempt as long as one is left.
C19_RetryPolicy ==
    appender # <<>> =>
        /\ RetryShape(appender.log)
        /\ (CallEnded /\ appender.log # <<>>) =>
              /\ appender.log[Len(appender.log)].op = "sendLog"
              /\ IsTransient(appender.log[Len(appender.log)].outcome) =>
                    Cardinality(AttemptsOf(appender.log)) = appender.maxRetries + 1

\* C19, amended: as above, except that a call whose wait is interrupted ends
\* there, without the attempts that were left.
C19_RetryPolicyUnlessInterrupted ==
    appender # <<>> =>
        /\ RetryShape(appender.log)
        /\ (CallEnded /\ appender.log # <<>>) =>
              IF appender.log[Len(appender.log)].op = "sleep"
              THEN appender.log[Len(appender.log)].interrupted
              ELSE IsTransient(appender.log[Len(appender.log)].outcome) =>
                      Cardinality(AttemptsOf(appender.log)) = appender.maxRetries + 1
        /\ \A i \in 1..Len(appender.log) :
              (appender.log[i].op = "sleep" /\ appender.log[i].interrupted) =>
                  (i = Len(appender.log) /\ appender.pc = "thrown")

\* a call that got a 503, waited, and ended with a 2xx answer
C19_Witness ==
    /\ appender # <<>>
    /\ appender.pc = "returned"
    /\ Len(appender.log) = 3
    /\ appender.log[1].op = "sendLog" /\ appender.log[1].outcome.kind = "response"
    /\ appender.log[1].outcome.code = 503
    /\ appender.log[2].op = "sleep" /\ ~appender.log[2].interrupted
    /\ Is2xx(appender.log[3].outcome)

\* the events the appender has tried to send
Attempted(a) == {at.event : at \in a.attempts}

\* a call of start() that found the endpoint or the secret missing leaves the
\* appender not started and without a pool
FailedStartStep ==
    appender'.errors # appender.errors =>
        /\ ~appender'.started
        /\ appender'.executor = appender.executor
        /\ appender'.queue = appender.queue

\* an event handed to append() outside a successful start() and the stop()
\* that follows is dropped: it is never queued and never tried
DroppedOutside(a) ==
    \A e \in 1..MaxEvents :
        a.task[e].during \in {"new", "stopping", "stopped"} =>
            /\ a.task[e].st = "dropped"
            /\ e \notin Attempted(a)

\* an event whose sending failed for good has an error of the appender, and
\* its append() returned without an exception; an append() that threw made
\* no attempt
FailureRecorded(a) ==
    /\ \A e \in 1..MaxEvents : a.task[e].st = "failed" => (e \in a.failed /\ e \notin a.thrown)
    /\ a.thrown \cap Attempted(a) = {}

\* C30 as stated: in addition, every attempt to send is made between a
\* successful start() and the return of the stop() that follows.
C30_SendsOnlyUntilStopReturns ==
    [][/\ FailedStartStep
       /\ DroppedOutside(appender')
       /\ FailureRecorded(appender')
       /\ \A at \in appender'.attempts : at.phase \in {"started", "stopping"}]_vars

\* C30: start() without an endpoint or without a secret leaves the appender
\* not started; an event handed to append() before the first successful
\* start() or after stop() was called is dropped without an attempt to send
\* it, so that every attempt is for an event accepted between a successful
\* start() and stop(); a failure to send is recorded as an error of the
\* appender and not thrown to the caller of append().
C30_AcceptsOnlyWhileStarted ==
    [][/\ FailedStartStep
       /\ DroppedOutside(appender')
       /\ FailureRecorded(appender')
       /\ \A e \in Attempted(appender') : appender'.task[e].during = "started"]_vars

\* start() failed for a missing secret, a later start() succeeded, the
\* first event failed for good and was recorded, and the second event came
\* after stop() returned and was dropped
C30_Witness ==
    /\ "Secret is required for TinyTailAppender" \in appender.errors
    /\ appender.gen = 1 /\ ~appender.started /\ ~appender.stopping
    /\ appender.task[1].st = "failed" /\ 1 \in appender.failed
    /\ appender.task[2].st = "dropped" /\ appender.task[2].during = "stopped"

====
